---- MODULE Spec2Model ----
(***************************************************************************)
(* State-machine model of the BLASTtv CS match-log analyser pipeline.      *)
(*                                                                         *)
(* The programs of the repository are modelled each with the variables it  *)
(* owns and specifications of its own:                                     *)
(*   SpecParse    parse.py               iter_parsed_lines, parse_to_dataframe *)
(*   SpecGroup    parse_round_events.py  group_non_empty_rounds            *)
(*   SpecOverview match_overview2json.py main (round builder)              *)
(*   SpecRound, SpecRoundScores                                            *)
(*                extend_round_events.py transform on a one-round document *)
(*   SpecExtend   extend_round_events.py run                               *)
(*   SpecFaceit   parse_faceit.py        the window descriptor and its readers *)
(* Every program reads its input one line at a time; the line is drawn     *)
(* from a small alphabet, so the reachable states cover every input of at  *)
(* most MaxLines lines.                                                    *)
(***************************************************************************)
EXTENDS Integers, Sequences, FiniteSets, TLC

\* Longest input (number of lines) explored for every program.
MaxLines == 5

\* Python's None where the other values are integers (round numbers, counts).
None == -1

\* Python's None where the other values are strings (player names, keys).
NoneStr == "None"

VARIABLES
    \* ---- parse.py: iter_parsed_lines / parse_to_dataframe ----
    p_pc,             \* "reading" | "done"
    p_consumed,       \* the raw lines read so far (history of the input)
    p_current_round,  \* current_round: int | None
    p_in_round,       \* in_round
    p_rows,           \* the ParsedLine rows yielded so far
    p_df,             \* parse_to_dataframe's result (<<>> until done)
    \* ---- extend_round_events.py: build_round_summary ----
    r_pc,             \* "reading" | "done" | "raised"
    r_lines,          \* the lines of the round given to build_round_summary
    r_summary,        \* the RoundSummary built (NoSummary until done)
    r_overview,       \* the match overview of the one-round document
    \* ---- parse_round_events.py: group_non_empty_rounds, then transform ----
    g_pc,             \* "reading" | "grouped" | "done" | "failed"
    g_consumed,       \* the windowed lines read so far (history of the input)
    g_in_round,       \* in_round
    g_round_num,      \* round_num
    g_current_key,    \* current_key: str | None
    g_current_events, \* current_events
    g_rounds,         \* rounds: insertion-ordered dict, as a sequence of items
    g_payload,        \* the JSON document main writes (NoPayload until grouped)
    g_doc,            \* the round event document of transform (NoDoc until done)
    \* ---- match_overview2json.py: main ----
    m_pc,             \* "reading" | "done"
    m_markers,        \* the lines read so far, as round markers (history)
    m_teams,          \* match["teams"]: side -> team name
    m_map,            \* match["map"]
    m_last_score,     \* last_score
    m_rounds,         \* rounds
    m_open_round,     \* open_round (NoOpenRound for None)
    m_out,            \* the document written (NoOut until done)
    \* ---- extend_round_events.py: run ----
    x_pc,             \* "input" | "exited"
    x_file,           \* PATH_IN: "json" | "not_json" | "absent"
    x_data,           \* the JSON value PATH_IN holds
    x_out,            \* PATH_OUT (NoDoc while not written)
    x_rc,             \* the exit code of run (None before it returns)
    \* ---- parse_faceit.py, and the stages that load its descriptor ----
    f_pc,             \* "reading" | "resolved"
    f_lines,          \* the FACEIT lines read so far (history of the input)
    f_start_dt,       \* start_dt: timestamp text | None
    f_end_dt,         \* end_dt: timestamp text | None
    f_desc,           \* match_faceit_key_events.json (NoDesc until written)
    f_grouper,        \* how parse_round_events.main ended (NotRun before)
    f_roster,         \* how the roster stage's main ended (NotRun before)
    f_team_1,         \* team_1 of the loop (NoneStr while unset)
    f_team_2,         \* team_2 of the loop (NoneStr while unset)
    \* ---- parse_faceit.py: calculate_total_rounds ----
    t_lines,          \* the lines of the file read so far
    t_rounds,         \* the local rounds (None while unset)
    \* ---- parse.py: classify_event ----
    c_msg,            \* the message body given to classify_event
    c_label,          \* the label it returned (NoneStr before the call)
    \* ---- the window readers of the grouping and the roster stage ----
    w_pc,             \* "loading", "reading" (the log grows), "closed"
    w_window,         \* the window <<start, end>> of the descriptor
    w_lines,          \* the lines of the raw log
    w_grouper,        \* what read_lines_in_window returned
    w_roster          \* what the roster stage made of the log

p_vars == <<p_pc, p_consumed, p_current_round, p_in_round, p_rows, p_df>>

r_vars == <<r_pc, r_lines, r_summary, r_overview>>

g_vars == <<g_pc, g_consumed, g_in_round, g_round_num, g_current_key,
            g_current_events, g_rounds, g_payload, g_doc>>

m_vars == <<m_pc, m_markers, m_teams, m_map, m_last_score, m_rounds,
            m_open_round, m_out>>

x_vars == <<x_pc, x_file, x_data, x_out, x_rc>>

f_vars ==
    <<f_pc, f_lines, f_start_dt, f_end_dt, f_desc, f_grouper, f_roster,
      f_team_1, f_team_2>>

t_vars == <<t_lines, t_rounds>>

c_vars == <<c_msg, c_label>>

w_vars == <<w_pc, w_window, w_lines, w_grouper, w_roster>>

vars ==
    <<p_vars, r_vars, g_vars, m_vars, x_vars, f_vars, c_vars, w_vars, t_vars>>

\* What a step of one program leaves alone: the other programs' variables.
p_others ==
    <<r_vars, g_vars, m_vars, x_vars, f_vars, c_vars, w_vars, t_vars>>

r_others ==
    <<p_vars, g_vars, m_vars, x_vars, f_vars, c_vars, w_vars, t_vars>>

g_others ==
    <<p_vars, r_vars, m_vars, x_vars, f_vars, c_vars, w_vars, t_vars>>

m_others ==
    <<p_vars, r_vars, g_vars, x_vars, f_vars, c_vars, w_vars, t_vars>>

x_others ==
    <<p_vars, r_vars, g_vars, m_vars, f_vars, c_vars, w_vars, t_vars>>

f_others ==
    <<p_vars, r_vars, g_vars, m_vars, x_vars, c_vars, w_vars, t_vars>>

c_others ==
    <<p_vars, r_vars, g_vars, m_vars, x_vars, f_vars, w_vars, t_vars>>

t_others ==
    <<p_vars, r_vars, g_vars, m_vars, x_vars, f_vars, c_vars, w_vars>>

w_others ==
    <<p_vars, r_vars, g_vars, m_vars, x_vars, f_vars, c_vars, t_vars>>

(***************************************************************************)
(* parse.py                                                                *)
(***************************************************************************)

\* The raw trigger names X of  triggered "X"  that the inputs use.
P_Triggers ==
    {"Round_Start", "Round_End", "Round_Officially_End", "Round_Ended",
     "Restart_Round_(1_second)"}

\* A message body, by what the patterns of the module find in it: the
\* trigger name of its first  triggered "X"  marker, the verb PLAYER_VERB_RE
\* finds, the verb PLAYER_ACTION_RE finds ("" when the pattern has no
\* match), the system phrases of rule 4 it contains, whether it contains
\* " killed ", the names of the player tokens PLAYER_RE finds in it, the
\* weapon of its  with "<weapon>"  clause ("" when it has none), and whether
\* it has the (headshot) marker.
P_Body(trigger, verb, action, sys, killed, players, weapon, hs) ==
    [trigger |-> trigger, verb |-> verb, action |-> action, sys |-> sys,
     killed |-> killed, players |-> players, weapon |-> weapon, hs |-> hs]

\* A body with a  triggered "X"  marker and nothing else.
P_TriggerMsg(trigger) == P_Body(trigger, "", "", {}, FALSE, <<>>, "", FALSE)

\* '"A<..>" killed "B<..>" with "ak47"'
P_KillMsg ==
    P_Body("", "killed", "killed", {}, TRUE, <<"A", "B">>, "ak47", FALSE)

P_NoMsg == P_Body("", "", "", {}, FALSE, <<>>, "", FALSE)

P_Msgs == {P_TriggerMsg(t) : t \in P_Triggers} \cup {P_KillMsg, P_NoMsg}

\* A raw line: LINE_RE does not match it ("nomatch"), it matches but the
\* date or time is no calendar value so pd.to_datetime gives NaT ("nat"),
\* or it tokenizes into a timestamp and a message ("ok").
P_Lines ==
    {[ts |-> "nomatch", msg |-> P_NoMsg], [ts |-> "nat", msg |-> P_NoMsg]}
        \cup {[ts |-> "ok", msg |-> m] : m \in P_Msgs}

\* slugify on the names the inputs use: lower-case, runs of non-word
\* characters to one underscore, underscores trimmed at both ends.
slugify(s) ==
    CASE s = "Round_Start" -> "round_start"
      [] s = "Round_End" -> "round_end"
      [] s = "Round_Officially_End" -> "round_officially_end"
      [] s = "Round_Ended" -> "round_ended"
      [] s = "Restart_Round_(1_second)" -> "restart_round_1_second"
      [] s = "picked up" -> "picked_up"
      [] OTHER -> s

\* A search for the marker that gives way to a player-verb pattern.
TRIGGERED_RE_found_UnlessVerb(msg) == msg.trigger # "" /\ msg.verb = ""

\* Line 84: TRIGGERED_RE.search(msg) finds a marker.
TRIGGERED_RE_found(msg) == msg.trigger # ""

\* Lines 99-108: the label of rule 4, NoneStr when no phrase is there.
SystemLabel(msg) ==
    IF "connected" \in msg.sys THEN "connect"
    ELSE IF "entered" \in msg.sys THEN "enter_game"
    ELSE IF "disconnected" \in msg.sys THEN "disconnect"
    ELSE IF "switched" \in msg.sys THEN "team_switch"
    ELSE IF "say" \in msg.sys \/ "say_team" \in msg.sys THEN "chat"
    ELSE NoneStr

\* Lines 71-110.
classify_event(msg) ==
    IF TRIGGERED_RE_found(msg) THEN "trigger_" \o slugify(msg.trigger)
    ELSE IF msg.verb # "" THEN slugify(msg.verb)
    ELSE IF msg.action # "" THEN slugify(msg.action)
    ELSE IF SystemLabel(msg) # NoneStr THEN SystemLabel(msg)
    ELSE "other"

\* The message bodies classify_event is applied to.  A match of
\* PLAYER_VERB_RE is a match of PLAYER_ACTION_RE as well, which is the
\* former without its closing quote; its verb is cut at the first blank.
C_Msgs ==
    {msg \in {P_Body(t, v, a, s, FALSE, <<>>, "", FALSE) :
                 t \in {"", "Round_Start", "Restart_Round_(1_second)"},
                 v \in {"", "killed", "picked up"},
                 a \in {"", "killed", "picked"},
                 s \in {{}, {"connected"}, {"entered"}, {"disconnected"},
                        {"switched"}, {"say"}, {"say_team"},
                        {"disconnected", "say"}}} :
        msg.verb # "" => msg.action # ""}

\* classify_event is called on a message body.
C_Classify ==
    /\ \E msg \in C_Msgs :
          /\ c_msg' = msg
          /\ c_label' = classify_event(msg)
    /\ UNCHANGED c_others

C_Init ==
    /\ c_msg = P_NoMsg
    /\ c_label = NoneStr

C_Next == C_Classify

ROUND_START_EVENTS == {"trigger_round_start"}

ROUND_END_EVENTS ==
    {"trigger_round_end", "trigger_round_officially_end", "trigger_round_ended"}

RESTART_EVENTS == {"trigger_restart_round_1_second"}

\* A restart handler that forgets to reset the round counter.
RestartRound_NoReset(event, current_round) == current_round

\* Lines 176-178: the restart marker resets the segmenter.
RestartRound(event, current_round) ==
    IF event \in RESTART_EVENTS THEN 0 ELSE current_round

RestartInRound(event, in_round) ==
    IF event \in RESTART_EVENTS THEN FALSE ELSE in_round

\* A round start that increments without the unset / 0 case.
StartRound_NoUnset(event, current_round) ==
    IF event \in ROUND_START_EVENTS THEN current_round + 1 ELSE current_round

\* Lines 181-186: a round start opens a round and numbers it.
StartRound(event, current_round) ==
    IF event \in ROUND_START_EVENTS
    THEN IF current_round = None \/ current_round = 0
         THEN 1
         ELSE current_round + 1
    ELSE current_round

StartInRound(event, in_round) ==
    IF event \in ROUND_START_EVENTS THEN TRUE ELSE in_round

\* Lines 189-191: whether the row is kept.
keep_boundary(event) ==
    event \in (ROUND_START_EVENTS \cup ROUND_END_EVENTS \cup RESTART_EVENTS)

KeepRow(event, in_round) == in_round \/ keep_boundary(event)

\* A round end that leaves in_round on.
EndInRound_Never(event, in_round) == in_round

\* Lines 231-232: in_round is switched off after the end marker's row.
EndInRound(event, in_round) ==
    IF event \in ROUND_END_EVENTS THEN FALSE ELSE in_round

\* Lines 44-60: the first n player tokens of the message.
first_n_players(msg, n) ==
    SubSeq(msg.players, 1, IF Len(msg.players) < n THEN Len(msg.players) ELSE n)

\* Lines 194-203: attacker and victim stay None unless the message has
\* " killed " and two player tokens parse.
Attacker(msg) ==
    IF msg.killed /\ Len(first_n_players(msg, 2)) >= 2
    THEN first_n_players(msg, 2)[1]
    ELSE NoneStr

Victim(msg) ==
    IF msg.killed /\ Len(first_n_players(msg, 2)) >= 2
    THEN first_n_players(msg, 2)[2]
    ELSE NoneStr

\* A weapon that is taken only when both players parsed.
Weapon_NeedsPlayers(msg) ==
    IF msg.killed /\ msg.weapon # "" /\ Len(msg.players) >= 2
    THEN msg.weapon
    ELSE NoneStr

\* Lines 205-206: the weapon of a kill message, None without the clause.
Weapon(msg) ==
    IF msg.killed /\ msg.weapon # "" THEN msg.weapon ELSE NoneStr

\* bool(...) as the value the row holds.
Bool(b) == IF b THEN "True" ELSE "False"

\* Lines 197, 207: is_headshot is None unless the message has " killed ".
IsHeadshot(msg) == IF msg.killed THEN Bool(msg.hs) ELSE NoneStr

\* One iteration of the loop of iter_parsed_lines over one raw line.
P_Read(line) ==
    /\ p_pc = "reading"
    /\ Len(p_consumed) < MaxLines
    /\ p_consumed' = Append(p_consumed, line)
    /\ IF line.ts # "ok"
       THEN UNCHANGED <<p_current_round, p_in_round, p_rows>>
       ELSE LET event == classify_event(line.msg)
                round == StartRound(event, RestartRound(event, p_current_round))
                inr == StartInRound(event, RestartInRound(event, p_in_round))
            IN  /\ p_current_round' = round
                /\ IF KeepRow(event, inr)
                   THEN /\ p_rows' = Append(p_rows,
                               [event |-> event, msg |-> line.msg,
                                round |-> round, src |-> Len(p_consumed) + 1,
                                attacker |-> Attacker(line.msg),
                                victim |-> Victim(line.msg),
                                weapon |-> Weapon(line.msg),
                                is_headshot |-> IsHeadshot(line.msg)])
                        /\ p_in_round' = EndInRound(event, inr)
                   ELSE /\ p_rows' = p_rows
                        /\ p_in_round' = inr
    /\ UNCHANGED <<p_pc, p_df, p_others>>

\* The loop reads a line of a log of round markers.
P_ReadLine == \E line \in P_Lines : P_Read(line)

\* The lines of a log of kills: round markers, kill messages in which no,
\* one, two or three player tokens parse, with and without a weapon clause
\* and a (headshot) marker, and an attack message, which has two players, a
\* weapon and the marker but not " killed ".
P_KillLines ==
    {[ts |-> "ok", msg |-> msg] :
        msg \in {P_TriggerMsg("Round_Start"), P_TriggerMsg("Round_End"),
                 P_Body("", "", "", {}, TRUE, <<>>, "ak47", TRUE),
                 P_Body("", "killed", "killed", {}, TRUE, <<"A">>, "", FALSE),
                 P_Body("", "killed", "killed", {}, TRUE, <<"A">>, "awp", TRUE),
                 P_Body("", "killed", "killed", {}, TRUE,
                        <<"A", "B", "C">>, "ak47", FALSE),
                 P_Body("", "attacked", "attacked", {}, FALSE,
                        <<"A", "B">>, "ak47", TRUE)}}

\* The loop reads a line of a log of kills.
P_ReadKillLine == \E line \in P_KillLines : P_Read(line)

RECURSIVE MinRound_Max(_)
\* The greatest round that is not None.
MinRound_Max(rows) ==
    IF rows = <<>> THEN None
    ELSE LET r == Head(rows).round
             m == MinRound_Max(Tail(rows))
         IN  IF r = None THEN m
             ELSE IF m = None \/ r > m THEN r ELSE m

RECURSIVE MinRound(_)
\* df["round"].dropna().min(): the least round that is not None.
MinRound(rows) ==
    IF rows = <<>> THEN None
    ELSE LET r == Head(rows).round
             m == MinRound(Tail(rows))
         IN  IF r = None THEN m
             ELSE IF m = None \/ r < m THEN r ELSE m

\* Lines 239-242: shift the rounds so that the first detected round is 1.
Normalise(rows) ==
    LET first_round == MinRound(rows)
    IN  IF first_round # None /\ first_round > 1
        THEN [i \in 1..Len(rows) |->
                 IF rows[i].round = None THEN rows[i]
                 ELSE [rows[i] EXCEPT !.round = @ - (first_round - 1)]]
        ELSE rows

parse_to_dataframe(rows) == Normalise(rows)

\* The input ends: parse_to_dataframe builds the frame from the rows.
P_Finish ==
    /\ p_pc = "reading"
    /\ p_pc' = "done"
    /\ p_df' = parse_to_dataframe(p_rows)
    /\ UNCHANGED <<p_consumed, p_current_round, p_in_round, p_rows, p_others>>

P_Init ==
    /\ p_pc = "reading"
    /\ p_consumed = <<>>
    /\ p_current_round = None
    /\ p_in_round = FALSE
    /\ p_rows = <<>>
    /\ p_df = <<>>

P_Next == P_ReadLine \/ P_Finish

P_KillNext == P_ReadKillLine \/ P_Finish

(***************************************************************************)
(* Log lines of the JSON artifacts (parse_round_events.py,                 *)
(* extend_round_events.py)                                                 *)
(***************************************************************************)

\* Longest round window given to build_round_summary.
MaxRoundLines == 5

\* A log line: its timestamp in seconds (None when the line has no
\* timestamp prefix, BadDate when the prefix has the shape of a timestamp
\* but names no date or time), the quote character around its tokens ("dq"
\* in the raw log, "sq" once normalise_line_for_json has run), what the body
\* says; for a kill line the names of killer and victim, the weapon as
\* written and whether the (headshot) marker follows; for a score or team
\* line the side as written, the score and the team name.
MarkerLine(ts, q, kind) ==
    [ts |-> ts, q |-> q, kind |-> kind,
     killer |-> "", victim |-> "", weapon |-> "", hs |-> FALSE,
     side |-> "", score |-> None, team |-> ""]

KillLine(ts, q, killer, victim, weapon, hs) ==
    [MarkerLine(ts, q, "kill") EXCEPT
        !.killer = killer, !.victim = victim, !.weapon = weapon, !.hs = hs]

\* '"A<..>" killed other "chicken<..>" with "knife"'
KilledOtherLine(ts, q, killer, weapon, hs) ==
    [MarkerLine(ts, q, "killed_other") EXCEPT
        !.killer = killer, !.victim = "chicken", !.weapon = weapon, !.hs = hs]

PlainLine(ts) == MarkerLine(ts, "sq", "plain")

\* "Team 'CT' scored '10' with '5' players"
ScoredLine(ts, q, side, score) ==
    [MarkerLine(ts, q, "scored") EXCEPT !.side = side, !.score = score]

\* "MatchStatus: Team playing 'CT': TeamA"
TeamPlayingLine(ts, q, side, team) ==
    [MarkerLine(ts, q, "team_playing") EXCEPT !.side = side, !.team = team]

(***************************************************************************)
(* extend_round_events.py                                                  *)
(***************************************************************************)

\* str.lower() on the weapon names the inputs use.
Lower(w) ==
    CASE w = "AK47" -> "ak47"
      [] OTHER -> w

\* str.upper() on the side names the inputs use.
Upper(side) ==
    CASE side = "ct" -> "CT"
      [] side = "terrorist" -> "TERRORIST"
      [] OTHER -> side

\* The timestamp of a line whose prefix matches TS_RE although it is no
\* calendar date or clock time, as in "13/45/2021 - 20:05:10:".
BadDate == -2

\* What a call that raised ValueError gives.
ValueError == -3

\* Seconds in a day: strftime("%H:%M:%S") drops the date.
DaySeconds == 86400

\* datetime.strptime on the text TS_RE matched.
strptime(ts) == IF ts = BadDate THEN ValueError ELSE ts

\* Lines 88-91: None without the prefix, else strptime, which is not guarded.
parse_timestamp(line) ==
    IF line.ts = None THEN None ELSE strptime(line.ts)

\* Line 95: the clock time of a datetime.
time_only(dt) == dt % DaySeconds

\* Lines 98-100: "MM:SS" as its two numbers.
mmss_from_seconds(seconds) ==
    LET s == IF seconds > 0 THEN seconds ELSE 0
    IN  [mm |-> s \div 60, ss |-> s % 60]

NoMmss == [mm |-> None, ss |-> None]

\* The datetimes of the lines that have one (line 122).
Datetimes(lines) ==
    LET ts == [i \in DOMAIN lines |-> parse_timestamp(lines[i])]
    IN  SelectSeq(ts, LAMBDA dt : dt # None)

\* Line 122 raises when parse_timestamp does on some line.
infer_round_times_raises(lines) ==
    \E i \in DOMAIN lines : parse_timestamp(lines[i]) = ValueError

\* A round start taken from the first line.
RoundStartOf_FirstLine(dts) == dts[1]

\* min(dts)
RoundStartOf(dts) ==
    CHOOSE x \in {dts[i] : i \in DOMAIN dts} :
        \A i \in DOMAIN dts : x <= dts[i]

\* max(dts)
RoundEndOf(dts) ==
    CHOOSE x \in {dts[i] : i \in DOMAIN dts} :
        \A i \in DOMAIN dts : x >= dts[i]

NoTimes == [start |-> None, end |-> None]

\* Lines 121-125.
infer_round_times(lines) ==
    LET dts == Datetimes(lines)
    IN  IF dts = <<>> THEN NoTimes
        ELSE [start |-> RoundStartOf(dts), end |-> RoundEndOf(dts)]

\* Lines 112-114.
length_seconds(times) == times.end - times.start

\* KILL_RE (single-quoted tokens) matches the line.
KILL_RE_matches(line) == line.kind = "kill" /\ line.q = "sq"

\* Names whose lower-cased text contains "headshot".
HeadshotNames == {"HeadshotKing"}

\* Line 162: "headshot" in lower, over the whole line.
HasHeadshotWord(line) ==
    line.hs \/ {line.killer, line.victim, line.weapon} \cap HeadshotNames # {}

\* Names whose lower-cased text contains "killed other".
KilledOtherNames == {"Killed Other"}

\* A test for the words that looks at the verb of the line only.
HasKilledOtherWords_VerbOnly(line) == line.kind = "killed_other"

\* Line 138: "killed other" in lower, over the whole line.
HasKilledOtherWords(line) ==
    \/ line.kind = "killed_other"
    \/ {line.killer, line.victim, line.weapon} \cap KilledOtherNames # {}

\* No KillEvent.
NoKill == [time |-> None, killed_by |-> NoneStr, killed |-> NoneStr,
           weapon |-> NoneStr, is_headshot |-> FALSE]

extract_kill_event(line) ==
    IF HasKilledOtherWords(line) THEN NoKill
    ELSE IF ~KILL_RE_matches(line) THEN NoKill
    ELSE LET ts == parse_timestamp(line)
         IN  [time |-> IF ts # None THEN time_only(ts) ELSE None,
              killed_by |-> line.killer,
              killed |-> line.victim,
              weapon |-> Lower(line.weapon),
              is_headshot |-> HasHeadshotWord(line)]

\* counts.get(killer, 0) on the dict counts (a function on its keys).
DictGet(d, k, default) == IF k \in DOMAIN d THEN d[k] ELSE default

DictPut(d, k, v) == [x \in DOMAIN d \cup {k} |-> IF x = k THEN v ELSE d[x]]

\* A comparison that also takes a player who only equals the best.
MvpBetter_OrEqual(count, best_kills) == count >= best_kills

\* Line 174: the streaming comparison.
MvpBetter(count, best_kills) == count > best_kills

RECURSIVE MvpLoop(_, _, _, _)
\* Lines 171-176: the loop over the kill events.
MvpLoop(kill_events, counts, best_player, best_kills) ==
    IF kill_events = <<>> THEN <<best_player, best_kills>>
    ELSE LET killer == Head(kill_events).killed_by
             c == DictGet(counts, killer, 0) + 1
             better == MvpBetter(c, best_kills)
         IN  MvpLoop(Tail(kill_events), DictPut(counts, killer, c),
                     IF better THEN killer ELSE best_player,
                     IF better THEN c ELSE best_kills)

\* A version whose best_kills starts at 1.
compute_round_mvp_InitOne(kill_events) ==
    MvpLoop(kill_events, <<>>, NoneStr, 1)

compute_round_mvp(kill_events) == MvpLoop(kill_events, <<>>, NoneStr, 0)

RECURSIVE KillEventsOf(_)
\* Lines 223-227: the kill events of the lines, in line order.
KillEventsOf(lines) ==
    IF lines = <<>> THEN <<>>
    ELSE LET ev == extract_kill_event(Head(lines))
         IN  (IF ev # NoKill THEN <<ev>> ELSE <<>>) \o KillEventsOf(Tail(lines))

\* TEAM_SCORED_RE finds an announcement in the line.
TEAM_SCORED_RE_matches(line) == line.kind = "scored" /\ line.q = "sq"

\* MATCHSTATUS_TEAM_RE finds a team line.
MATCHSTATUS_TEAM_RE_matches(line) == line.kind = "team_playing" /\ line.q = "sq"

\* A store that keeps the first score announced for a side.
ScorePut_KeepFirst(scores, side, score) ==
    IF side \in DOMAIN scores THEN scores ELSE DictPut(scores, side, score)

\* Line 190: scores[side] = score.
ScorePut(scores, side, score) == DictPut(scores, side, score)

RECURSIVE ScoresLoop(_, _)
\* Lines 187-190.
ScoresLoop(lines, scores) ==
    IF lines = <<>> THEN scores
    ELSE LET line == Head(lines)
         IN  ScoresLoop(Tail(lines),
                        IF TEAM_SCORED_RE_matches(line)
                        THEN ScorePut(scores, Upper(line.side), line.score)
                        ELSE scores)

extract_scores(lines) == ScoresLoop(lines, <<>>)

RECURSIVE TeamsLoop(_, _)
\* Lines 196-199.
TeamsLoop(lines, teams) ==
    IF lines = <<>> THEN teams
    ELSE LET line == Head(lines)
         IN  TeamsLoop(Tail(lines),
                       IF MATCHSTATUS_TEAM_RE_matches(line)
                       THEN DictPut(teams, Upper(line.side), line.team)
                       ELSE teams)

extract_team_map(lines) == TeamsLoop(lines, <<>>)

\* Lines 203-213: <<winning_side, winning_team>>.
extract_winner(lines) ==
    LET scores == extract_scores(lines)
        teams == extract_team_map(lines)
        ct == DictGet(scores, "CT", None)
        t == DictGet(scores, "TERRORIST", None)
    IN  IF ct = None \/ t = None \/ ct = t THEN <<NoneStr, NoneStr>>
        ELSE LET side == IF ct > t THEN "CT" ELSE "TERRORIST"
             IN  <<side, DictGet(teams, side, NoneStr)>>

NoSummary == [total_kills |-> None]

\* build_round_summary raises what infer_round_times raises (line 221).
build_round_summary_raises(lines) == infer_round_times_raises(lines)

\* Lines 220-258.
build_round_summary(lines) ==
    LET times == infer_round_times(lines)
        kill_events == KillEventsOf(lines)
        mvp == IF kill_events # <<>> THEN compute_round_mvp(kill_events)
               ELSE <<NoneStr, 0>>
        winner == extract_winner(lines)
        timed == times # NoTimes
    IN  [round_start |-> IF timed THEN time_only(times.start) ELSE None,
         round_end |-> IF timed THEN time_only(times.end) ELSE None,
         round_length_seconds |->
             IF timed THEN length_seconds(times) ELSE None,
         round_length_minutes_seconds |->
             IF timed THEN mmss_from_seconds(length_seconds(times))
             ELSE NoMmss,
         winning_side |-> winner[1],
         winning_team |-> winner[2],
         total_kills |-> Len(kill_events),
         mvp_kills_player |-> mvp[1],
         mvp_kills |-> mvp[2],
         kill_events |-> kill_events]

\* d[key] = value on an insertion-ordered dict.
OrderedPut(d, key, value) ==
    IF \E i \in DOMAIN d : d[i].key = key
    THEN [i \in DOMAIN d |->
             IF d[i].key = key THEN [key |-> key, value |-> value] ELSE d[i]]
    ELSE Append(d, [key |-> key, value |-> value])

\* d.get(key, default) on an insertion-ordered dict.
OrderedGet(d, key, default) ==
    IF \E i \in DOMAIN d : d[i].key = key
    THEN d[CHOOSE i \in DOMAIN d : d[i].key = key].value
    ELSE default

\* A mean whose fraction is dropped.
RoundedMean_Floor(total, n) == total \div n

\* Line 284: int(round(total / n)); round() takes a half to the even side.
RoundedMean(total, n) ==
    LET q == total \div n
        r == total % n
    IN  IF 2 * r < n THEN q
        ELSE IF 2 * r > n THEN q + 1
        ELSE IF q % 2 = 0 THEN q ELSE q + 1

\* Lines 266-270: (round key, seconds) of the rounds whose length is an int.
Lengths(rounds) ==
    LET known == SelectSeq(rounds,
                     LAMBDA r : r.value.round_length_seconds # None)
    IN  [i \in DOMAIN known |->
            [round |-> known[i].key,
             sec |-> known[i].value.round_length_seconds]]

RECURSIVE SumSec(_)
\* Line 283.
SumSec(lengths) ==
    IF lengths = <<>> THEN 0 ELSE Head(lengths).sec + SumSec(Tail(lengths))

\* The last of the shortest entries.
MinByLength_Last(lengths) ==
    lengths[CHOOSE i \in DOMAIN lengths :
                \A j \in DOMAIN lengths :
                    /\ lengths[i].sec <= lengths[j].sec
                    /\ j > i => lengths[i].sec < lengths[j].sec]

\* Line 287: min(lengths, key=...) gives the first of the shortest entries.
MinByLength(lengths) ==
    lengths[CHOOSE i \in DOMAIN lengths :
                \A j \in DOMAIN lengths :
                    /\ lengths[i].sec <= lengths[j].sec
                    /\ j < i => lengths[i].sec < lengths[j].sec]

\* Line 288: max(lengths, key=...) gives the first of the longest entries.
MaxByLength(lengths) ==
    lengths[CHOOSE i \in DOMAIN lengths :
                \A j \in DOMAIN lengths :
                    /\ lengths[i].sec >= lengths[j].sec
                    /\ j < i => lengths[i].sec > lengths[j].sec]

\* Lines 290-291.
RoundRef(entry) ==
    [round |-> entry.round,
     length |-> mmss_from_seconds(entry.sec),
     length_seconds |-> entry.sec]

NoRoundRef == [round |-> NoneStr, length |-> NoMmss, length_seconds |-> None]

RECURSIVE AllKillEvents(_)
\* Lines 298-299: the kill events of all rounds, in round and event order.
AllKillEvents(rounds) ==
    IF rounds = <<>> THEN <<>>
    ELSE Head(rounds).value.kill_events \o AllKillEvents(Tail(rounds))

RECURSIVE TallyLoop(_, _)
\* Lines 304-309: d[k] = d.get(k, 0) + 1 for each key in turn.
TallyLoop(keys, d) ==
    IF keys = <<>> THEN d
    ELSE TallyLoop(Tail(keys),
                   OrderedPut(d, Head(keys), OrderedGet(d, Head(keys), 0) + 1))

Tally(keys) == TallyLoop(keys, <<>>)

\* The last of the items with the highest count.
MaxItem_Last(d) ==
    d[CHOOSE i \in DOMAIN d :
          \A j \in DOMAIN d :
              /\ d[i].value >= d[j].value
              /\ j > i => d[i].value > d[j].value]

\* Lines 312, 316, 320, 324: max(d.items(), key=...) gives the first of the
\* items with the highest count, in insertion order.
MaxItem(d) ==
    d[CHOOSE i \in DOMAIN d :
          \A j \in DOMAIN d :
              /\ d[i].value >= d[j].value
              /\ j < i => d[i].value > d[j].value]

kills_by_player(events) ==
    Tally([i \in DOMAIN events |-> events[i].killed_by])

deaths_by_player(events) ==
    Tally([i \in DOMAIN events |-> events[i].killed])

kills_by_weapon(events) ==
    Tally([i \in DOMAIN events |-> events[i].weapon])

headshots_by_player(events) ==
    kills_by_player(SelectSeq(events, LAMBDA ev : ev.is_headshot))

NoMvpKills == [player |-> NoneStr, kills |-> None]

NoLspDeaths == [player |-> NoneStr, deaths |-> None]

NoTopWeapon == [weapon |-> NoneStr, kills |-> None]

NoMostHeadshots == [player |-> NoneStr, headshots |-> None]

\* Lines 265-327.
build_match_overview(rounds) ==
    LET lengths == Lengths(rounds)
        events == AllKillEvents(rounds)
        kp == kills_by_player(events)
        dp == deaths_by_player(events)
        kw == kills_by_weapon(events)
        hp == headshots_by_player(events)
    IN  [average_round_length |->
             IF lengths # <<>>
             THEN mmss_from_seconds(RoundedMean(SumSec(lengths), Len(lengths)))
             ELSE NoMmss,
         shortest_round |->
             IF lengths # <<>> THEN RoundRef(MinByLength(lengths))
             ELSE NoRoundRef,
         longest_round |->
             IF lengths # <<>> THEN RoundRef(MaxByLength(lengths))
             ELSE NoRoundRef,
         mvp_kills |->
             IF kp # <<>>
             THEN [player |-> MaxItem(kp).key, kills |-> MaxItem(kp).value]
             ELSE NoMvpKills,
         lsp_deaths |->
             IF dp # <<>>
             THEN [player |-> MaxItem(dp).key, deaths |-> MaxItem(dp).value]
             ELSE NoLspDeaths,
         top_weapon |->
             IF kw # <<>>
             THEN [weapon |-> MaxItem(kw).key, kills |-> MaxItem(kw).value]
             ELSE NoTopWeapon,
         most_headshots |->
             IF hp # <<>>
             THEN [player |-> MaxItem(hp).key, headshots |-> MaxItem(hp).value]
             ELSE NoMostHeadshots]

\* A test that looks at the first item of the list only.
IsListOfStr_FirstItem(lines) ==
    lines = <<>> \/ lines[1].kind # "json_number"

\* A list of JSON strings: no item of it is another kind of JSON value.
IsListOfStr(lines) == \A i \in DOMAIN lines : lines[i].kind # "json_number"

\* Lines 344-352: the ValueError of the validation, or the exception of
\* build_round_summary.
transform_raises(input_data) ==
    \/ "rounds" \notin DOMAIN input_data
    \/ \E i \in DOMAIN input_data.rounds :
          \/ ~IsListOfStr(input_data.rounds[i].value)
          \/ build_round_summary_raises(input_data.rounds[i].value)

\* Lines 348-352.
RoundsOut(rounds_in) ==
    [i \in DOMAIN rounds_in |->
        [key |-> rounds_in[i].key,
         value |-> build_round_summary(rounds_in[i].value)]]

\* Lines 334-357.
transform(input_data) ==
    LET rounds_out == RoundsOut(input_data.rounds)
    IN  [rounds |-> rounds_out,
         match_overview |-> build_match_overview(rounds_out)]

NoOverview == [average_round_length |-> NoMmss]

\* The lines a round window is drawn from.
R_Lines ==
    {KillLine(1, "sq", "A", "B", "AK47", FALSE),
     KillLine(2, "sq", "B", "A", "awp", TRUE),
     KillLine(3, "dq", "A", "B", "ak47", FALSE),
     KilledOtherLine(3, "sq", "A", "knife", TRUE),
     KillLine(4, "sq", "Killed Other", "B", "awp", TRUE),
     PlainLine(None)}

\* One more line of the round window.
R_AddLine ==
    /\ r_pc = "reading"
    /\ Len(r_lines) < MaxRoundLines
    /\ \E line \in R_Lines : r_lines' = Append(r_lines, line)
    /\ UNCHANGED <<r_pc, r_summary, r_overview, r_others>>

\* The score, team and timestamp lines a round window is drawn from: the
\* first two a day apart around midnight, one with a prefix that is no date.
R_ScoreLines ==
    {ScoredLine(86390, "sq", "CT", 10),
     ScoredLine(86410, "sq", "CT", 8),
     ScoredLine(None, "sq", "TERRORIST", 8),
     ScoredLine(5, "sq", "terrorist", 10),
     TeamPlayingLine(5, "sq", "CT", "TeamA"),
     TeamPlayingLine(None, "sq", "TERRORIST", "TeamB"),
     PlainLine(BadDate)}

\* One more line of a round window of score lines.
R_AddScoreLine ==
    /\ r_pc = "reading"
    /\ Len(r_lines) < MaxRoundLines
    /\ \E line \in R_ScoreLines : r_lines' = Append(r_lines, line)
    /\ UNCHANGED <<r_pc, r_summary, r_overview, r_others>>

\* The kill lines of a round window in which the word "headshot" is in a
\* player's name and not in a marker, in a marker, or nowhere.
R_HeadshotLines ==
    {KillLine(1, "sq", "HeadshotKing", "B", "ak47", FALSE),
     KillLine(2, "sq", "B", "HeadshotKing", "awp", TRUE),
     KillLine(3, "sq", "A", "B", "awp", TRUE),
     KillLine(4, "sq", "A", "B", "ak47", FALSE)}

\* One more line of a round window of headshot lines.
R_AddHeadshotLine ==
    /\ r_pc = "reading"
    /\ Len(r_lines) < MaxRoundLines
    /\ \E line \in R_HeadshotLines : r_lines' = Append(r_lines, line)
    /\ UNCHANGED <<r_pc, r_summary, r_overview, r_others>>

\* The document whose only round is the window.
OneRound(lines) == [rounds |-> <<[key |-> "round_1", value |-> lines]>>]

\* transform on the one-round document: the summary of the round and the
\* match overview, or the exception.
R_Build ==
    /\ r_pc = "reading"
    /\ IF transform_raises(OneRound(r_lines))
       THEN /\ r_pc' = "raised"
            /\ UNCHANGED <<r_summary, r_overview>>
       ELSE LET doc == transform(OneRound(r_lines))
            IN  /\ r_pc' = "done"
                /\ r_summary' = doc.rounds[1].value
                /\ r_overview' = doc.match_overview
    /\ UNCHANGED <<r_lines, r_others>>

R_Init ==
    /\ r_pc = "reading"
    /\ r_lines = <<>>
    /\ r_summary = NoSummary
    /\ r_overview = NoOverview

R_Next == R_AddLine \/ R_Build

R_ScoreNext == R_AddScoreLine \/ R_Build

R_HeadshotNext == R_AddHeadshotLine \/ R_Build

(***************************************************************************)
(* parse_round_events.py, and transform of extend_round_events.py          *)
(***************************************************************************)

\* Longest windowed line list given to group_non_empty_rounds.
MaxGroupLines == 6

\* The windowed lines group_non_empty_rounds reads, as in the raw log; a
\* marker written with single quotes is not the marker the code looks for.
G_Lines ==
    {MarkerLine(1, "dq", "Round_Start"),
     MarkerLine(9, "dq", "Round_End"),
     MarkerLine(1, "sq", "Round_Start"),
     KillLine(2, "dq", "A", "B", "ak47", FALSE),
     PlainLine(3)}

\* 'World triggered "Round_Start"' in line
HasRoundStart(line) == line.kind = "Round_Start" /\ line.q = "dq"

\* 'World triggered "Round_End"' in line
HasRoundEnd(line) == line.kind = "Round_End" /\ line.q = "dq"

normalise_line_for_json(line) == [line EXCEPT !.q = "sq"]

\* A key numbered from 0.
RoundKey_ZeroBased(round_num) == "round_" \o ToString(round_num - 1)

\* f"round_{round_num}"
RoundKey(round_num) == "round_" \o ToString(round_num)

\* Lines 61-62, 70-71: the key is made when first needed.
KeyOrNew(current_key, round_num) ==
    IF current_key = NoneStr THEN RoundKey(round_num) ELSE current_key

\* Lines 60-63: a round is stored at its Round_End when it has event lines.
StoreRound(rounds, current_key, round_num, current_events) ==
    IF current_events # <<>>
    THEN OrderedPut(rounds, KeyOrNew(current_key, round_num), current_events)
    ELSE rounds

\* One iteration of the loop of group_non_empty_rounds.
G_ReadLine ==
    /\ g_pc = "reading"
    /\ Len(g_consumed) < MaxGroupLines
    /\ \E line \in G_Lines :
        /\ g_consumed' = Append(g_consumed, line)
        /\ IF HasRoundStart(line)
           THEN /\ g_in_round' = TRUE
                /\ g_round_num' = g_round_num + 1
                /\ g_current_key' = NoneStr
                /\ g_current_events' = <<>>
                /\ g_rounds' = g_rounds
           ELSE IF g_in_round /\ HasRoundEnd(line)
           THEN /\ g_rounds' = StoreRound(g_rounds, g_current_key, g_round_num,
                                          g_current_events)
                /\ g_in_round' = FALSE
                /\ g_current_key' = NoneStr
                /\ g_current_events' = <<>>
                /\ g_round_num' = g_round_num
           ELSE IF g_in_round
           THEN /\ g_current_key' = KeyOrNew(g_current_key, g_round_num)
                /\ g_current_events' =
                       Append(g_current_events, normalise_line_for_json(line))
                /\ UNCHANGED <<g_in_round, g_round_num, g_rounds>>
           ELSE UNCHANGED <<g_in_round, g_round_num, g_current_key,
                            g_current_events, g_rounds>>
    /\ UNCHANGED <<g_pc, g_payload, g_doc, g_others>>

RECURSIVE SumLen(_)
SumLen(d) == IF d = <<>> THEN 0 ELSE Len(Head(d).value) + SumLen(Tail(d))

NoPayload == [round_count |-> None]

NoDoc == [rounds |-> <<>>, written |-> FALSE]

\* Line 74 and main, lines 81-90: the rounds are returned and written.
G_Finish ==
    /\ g_pc = "reading"
    /\ g_pc' = "grouped"
    /\ g_payload' = [round_count |-> Len(g_rounds),
                     total_event_lines |-> SumLen(g_rounds),
                     rounds |-> g_rounds]
    /\ UNCHANGED <<g_consumed, g_in_round, g_round_num, g_current_key,
                   g_current_events, g_rounds, g_doc, g_others>>

\* Lines 360-369: the document as PATH_OUT holds it.
write_json_safely(payload) ==
    [rounds |-> payload.rounds,
     match_overview |-> payload.match_overview,
     written |-> TRUE]

\* run of extend_round_events.py on the document main has written.
G_Transform ==
    /\ g_pc = "grouped"
    /\ IF transform_raises(g_payload)
       THEN /\ g_pc' = "failed"
            /\ g_doc' = g_doc
       ELSE /\ g_pc' = "done"
            /\ g_doc' = write_json_safely(transform(g_payload))
    /\ UNCHANGED <<g_consumed, g_in_round, g_round_num, g_current_key,
                   g_current_events, g_rounds, g_payload, g_others>>

G_Init ==
    /\ g_pc = "reading"
    /\ g_consumed = <<>>
    /\ g_in_round = FALSE
    /\ g_round_num = 0
    /\ g_current_key = NoneStr
    /\ g_current_events = <<>>
    /\ g_rounds = <<>>
    /\ g_payload = NoPayload
    /\ g_doc = NoDoc

G_Next == G_ReadLine \/ G_Finish \/ G_Transform

(***************************************************************************)
(* extend_round_events.py: run                                             *)
(***************************************************************************)

\* Most rounds of an input document of run.
MaxRounds == 3

\* An item of a JSON list that is a number, not a string.
JsonNumber == MarkerLine(None, "", "json_number")

\* The values a round of the input document is drawn from: two rounds of
\* ten seconds with one kill each, a round of eleven seconds whose lines
\* hold the words "killed other", a round without timestamps, a list that
\* holds a number, and a round with a prefix that is no date.
X_Windows ==
    {<<KillLine(100, "sq", "A", "B", "AK47", TRUE), PlainLine(110)>>,
     <<KillLine(210, "sq", "B", "A", "awp", TRUE), PlainLine(200)>>,
     <<PlainLine(300), KilledOtherLine(305, "sq", "A", "knife", TRUE),
       KillLine(311, "sq", "Killed Other", "B", "awp", FALSE)>>,
     <<KillLine(None, "sq", "B", "A", "AK47", FALSE)>>,
     <<PlainLine(400), JsonNumber>>,
     <<PlainLine(BadDate)>>}

\* The input document gets one more round.
X_AddRound ==
    /\ x_pc = "input"
    /\ x_file = "json"
    /\ "rounds" \in DOMAIN x_data
    /\ Len(x_data.rounds) < MaxRounds
    /\ \E w \in X_Windows :
          x_data' = [rounds |->
                        Append(x_data.rounds,
                               [key |-> RoundKey(Len(x_data.rounds) + 1),
                                value |-> w])]
    /\ UNCHANGED <<x_pc, x_file, x_out, x_rc, x_others>>

\* The input is no document of rounds: the file is missing, its text is no
\* JSON, or its JSON has no "rounds" object.
X_Damage ==
    /\ x_pc = "input"
    /\ x_file = "json"
    /\ "rounds" \in DOMAIN x_data
    /\ \E kind \in {"absent", "not_json", "no_rounds"} :
          IF kind = "no_rounds"
          THEN /\ x_data' = [round_count |-> Len(x_data.rounds)]
               /\ x_file' = x_file
          ELSE /\ x_file' = kind
               /\ x_data' = x_data
    /\ UNCHANGED <<x_pc, x_out, x_rc, x_others>>

\* Lines 377-401: the exit code of run.
run(file, data) ==
    IF file = "absent" THEN 1
    ELSE IF file = "not_json" THEN 1
    ELSE IF transform_raises(data) THEN 1
    ELSE 0

\* run, whole: PATH_OUT is written between transform and the return of 0.
X_Run ==
    /\ x_pc = "input"
    /\ x_pc' = "exited"
    /\ x_rc' = run(x_file, x_data)
    /\ x_out' = IF run(x_file, x_data) = 0
                THEN write_json_safely(transform(x_data))
                ELSE x_out
    /\ UNCHANGED <<x_file, x_data, x_others>>

X_Init ==
    /\ x_pc = "input"
    /\ x_file = "json"
    /\ x_data = [rounds |-> <<>>]
    /\ x_out = NoDoc
    /\ x_rc = None

X_Next == X_AddRound \/ X_Damage \/ X_Run

(***************************************************************************)
(* parse_faceit.py: the match window descriptor, and its two readers       *)
(* (parse_round_events.py, parse_match_start_end_roster_accolade.py)       *)
(***************************************************************************)

\* Longest list of FACEIT lines given to extract_faceit_match_key_events.
MaxFaceitLines == 3

\* A FACEIT line: the timestamp LOG_TS_RE finds (None without the prefix),
\* what the line is ("Admin ... started the match", "Team ... won", a line
\* with the [0 - 1] marker, or another), and for a marker line the texts
\* to the left and to the right of the marker.
F_Line(ts, kind, left, right) ==
    [ts |-> ts, kind |-> kind, left |-> left, right |-> right]

F_Lines ==
    {F_Line(ts, kind, "", "") :
        ts \in {None, 1, 2}, kind \in {"match_start", "win"}}
       \cup {F_Line(1, "other", "", "")}

\* The lines of an overlay that announces the teams: a marker line with a
\* name of one character, one with a name of which the cleanup leaves
\* nothing, two with two names, one with nothing before the marker, and a
\* line without the marker.
F_TeamLines ==
    {F_Line(1, "score01", "Team A.", "Team Vitality"),
     F_Line(1, "score01", "Team NaVi", "-"),
     F_Line(1, "score01", "Team NaVi", "Team Vitality"),
     F_Line(1, "score01", "Team G2", "Team Astralis"),
     F_Line(1, "score01", "", "Team Vitality"),
     F_Line(1, "other", "", "")}

\* Lines 90-102: clean_team_name on the names the inputs use: the leading
\* "Team " and the punctuation at both ends are removed.
clean_team_name(raw) ==
    CASE raw = "Team A." -> "A"
      [] raw = "-" -> ""
      [] raw = "Team NaVi" -> "NaVi"
      [] raw = "Team Vitality" -> "Vitality"
      [] raw = "Team G2" -> "G2"
      [] raw = "Team Astralis" -> "Astralis"
      [] OTHER -> raw

\* A test that only rejects the empty name.
TooShort_Empty(name) == Len(name) < 1

\* Line 117: len(team) < 2
TooShort(name) == Len(name) < 2

\* The pair that is no pair.
NoPair == <<>>

\* Lines 105-120: FACEIT_TEAMS_FROM_SCORE needs text on both sides of the
\* marker; a pair with a name that is too short is not returned.
extract_two_teams_from_score_line(line) ==
    IF line.left = "" \/ line.right = "" THEN NoPair
    ELSE LET team_1 == clean_team_name(line.left)
             team_2 == clean_team_name(line.right)
         IN  IF TooShort(team_1) \/ TooShort(team_2) THEN NoPair
             ELSE <<team_1, team_2>>

\* Lines 197-200 of the loop: the pair is taken while both teams are unset.
TeamsAfter(team_1, team_2, line) ==
    IF team_1 = NoneStr /\ team_2 = NoneStr /\ line.kind = "score01"
          /\ extract_two_teams_from_score_line(line) # NoPair
    THEN extract_two_teams_from_score_line(line)
    ELSE <<team_1, team_2>>

\* Lines 80-84 and 194, 206: the text "<date> - <time>" of the prefix.
extract_dt_parts(line) == line.ts

\* Lines 190-195 of the loop: start_dt is set once.
StartDtAfter(start_dt, line) ==
    IF start_dt = None /\ line.kind = "match_start"
          /\ extract_dt_parts(line) # None
    THEN extract_dt_parts(line)
    ELSE start_dt

\* Lines 202-207 of the loop: end_dt is set at every win line.
EndDtAfter(end_dt, line) ==
    IF line.kind = "win" /\ extract_dt_parts(line) # None
    THEN extract_dt_parts(line)
    ELSE end_dt

\* One iteration of the loop of extract_faceit_match_key_events.
F_Read(line) ==
    /\ f_pc = "reading"
    /\ Len(f_lines) < MaxFaceitLines
    /\ f_lines' = Append(f_lines, line)
    /\ f_start_dt' = StartDtAfter(f_start_dt, line)
    /\ f_team_1' = TeamsAfter(f_team_1, f_team_2, line)[1]
    /\ f_team_2' = TeamsAfter(f_team_1, f_team_2, line)[2]
    /\ f_end_dt' = EndDtAfter(f_end_dt, line)
    /\ UNCHANGED <<f_pc, f_desc, f_grouper, f_roster, f_others>>

\* The loop reads a line of an overlay of match markers.
F_ReadLine == \E line \in F_Lines : F_Read(line)

\* The loop reads a line of an overlay that announces the teams.
F_ReadTeamLine == \E line \in F_TeamLines : F_Read(line)

NoDesc == [written |-> FALSE]

\* Lines 220-231 and dump_json: the descriptor is returned and written.
F_Finish ==
    /\ f_pc = "reading"
    /\ f_pc' = "resolved"
    /\ f_desc' = [written |-> TRUE, start_dt |-> f_start_dt,
                  end_dt |-> f_end_dt, team_1 |-> f_team_1,
                  team_2 |-> f_team_2]
    /\ UNCHANGED <<f_lines, f_start_dt, f_end_dt, f_grouper, f_roster,
                   f_team_1, f_team_2, f_others>>

\* What datetime.strptime raises when its argument is None.
TypeError == -5

\* parse_round_events.py, lines 26-31: strptime on both values, unguarded;
\* the exception of the first call that raises, None when none does.
load_match_window_raises(data) ==
    IF data.start_dt = None THEN TypeError
    ELSE IF strptime(data.start_dt) = ValueError THEN ValueError
    ELSE IF data.end_dt = None THEN TypeError
    ELSE IF strptime(data.end_dt) = ValueError THEN ValueError
    ELSE None

\* Lines 26-31: the window.
load_match_window(data) == <<strptime(data.start_dt), strptime(data.end_dt)>>

\* The text "None" that str() makes of None.
NoneText == -4

\* str(frame["start_dt"])
Str(v) == IF v = None THEN NoneText ELSE v

\* parse_match_start_end_roster_accolade.py, lines 75-78.
load_frame(frame) == <<Str(frame.start_dt), Str(frame.end_dt)>>

\* Lines 64-66 of the roster stage: strptime on a text.
parse_ts(ts) == IF ts = NoneText THEN ValueError ELSE strptime(ts)

\* Lines 89-90: the exception iter_lines_in_range raises on its window, or
\* None when it raises none.
iter_lines_in_range_raises(start_ts, end_ts) ==
    IF parse_ts(start_ts) = ValueError \/ parse_ts(end_ts) = ValueError
    THEN ValueError
    ELSE None

NotRun == [rc |-> None, diagnostic |-> "none", exception |-> None]

\* A main that returns: exit status 0.
Returned == [rc |-> 0, diagnostic |-> "none", exception |-> None]

\* A main left by an exception nothing catches: the interpreter prints the
\* traceback and the exception, and the exit status is 1.
Uncaught(exception) ==
    [rc |-> 1, diagnostic |-> "traceback", exception |-> exception]

\* parse_round_events.main, lines 77-92: no exception is caught.
F_Grouper ==
    /\ f_pc = "resolved"
    /\ f_grouper = NotRun
    /\ f_grouper' = IF load_match_window_raises(f_desc) # None
                    THEN Uncaught(load_match_window_raises(f_desc))
                    ELSE Returned
    /\ UNCHANGED <<f_pc, f_lines, f_start_dt, f_end_dt, f_desc, f_roster,
                   f_team_1, f_team_2, f_others>>

\* main of the roster stage, lines 279-302: no exception is caught.
F_Roster ==
    /\ f_pc = "resolved"
    /\ f_roster = NotRun
    /\ LET frame == load_frame(f_desc)
           exception == iter_lines_in_range_raises(frame[1], frame[2])
       IN  f_roster' = IF exception # None THEN Uncaught(exception)
                       ELSE Returned
    /\ UNCHANGED <<f_pc, f_lines, f_start_dt, f_end_dt, f_desc, f_grouper,
                   f_team_1, f_team_2, f_others>>

F_Init ==
    /\ f_pc = "reading"
    /\ f_lines = <<>>
    /\ f_start_dt = None
    /\ f_end_dt = None
    /\ f_desc = NoDesc
    /\ f_grouper = NotRun
    /\ f_roster = NotRun
    /\ f_team_1 = NoneStr
    /\ f_team_2 = NoneStr

F_Next == F_ReadLine \/ F_Finish \/ F_Grouper \/ F_Roster

F_TeamNext == F_ReadTeamLine \/ F_Finish \/ F_Grouper \/ F_Roster

(***************************************************************************)
(* parse_faceit.py: calculate_total_rounds                                 *)
(***************************************************************************)

\* Longest file given to calculate_total_rounds.
MaxTotalLines == 3

\* The lines of the file: the digits of the 'RoundsPlayed: N' field
\* ROUNDS_PLAYED_RE finds in the line, "" when it finds none.
T_Lines == {[field |-> f] : f \in {"", "22", "16", "007", "30"}}

\* int() on the digit texts the inputs use.
int(text) ==
    CASE text = "22" -> 22
      [] text = "16" -> 16
      [] text = "007" -> 7
      [] text = "30" -> 30

\* A loop that keeps the largest value seen.
RoundsAfter_KeepMax(rounds, line) ==
    IF line.field # "" /\ (rounds = None \/ int(line.field) > rounds)
    THEN int(line.field)
    ELSE rounds

\* Lines 159-162: every match overwrites rounds.
RoundsAfter(rounds, line) ==
    IF line.field # "" THEN int(line.field) ELSE rounds

\* One iteration of the loop of calculate_total_rounds; the function
\* returns rounds when the file ends.
T_ReadLine ==
    /\ Len(t_lines) < MaxTotalLines
    /\ \E line \in T_Lines :
          /\ t_lines' = Append(t_lines, line)
          /\ t_rounds' = RoundsAfter(t_rounds, line)
    /\ UNCHANGED t_others

T_Init ==
    /\ t_lines = <<>>
    /\ t_rounds = None

T_Next == T_ReadLine

(***************************************************************************)
(* The window readers: read_lines_in_window of parse_round_events.py, and  *)
(* iter_lines_in_range and team_names_at_ts of the roster stage            *)
(***************************************************************************)

\* Longest raw log given to the window readers.
MaxWindowLines == 4

\* The windows of the descriptor: two seconds wide, and one second wide.
W_Windows == {<<2, 3>>, <<2, 2>>}

\* The lines of the raw log: before, at the bounds of, and after the
\* window, two of them at the same second, one without a timestamp prefix
\* and one whose prefix names no date.
W_Lines ==
    {PlainLine(1), PlainLine(2), KillLine(2, "dq", "A", "B", "ak47", FALSE),
     PlainLine(3), PlainLine(4), PlainLine(None), PlainLine(BadDate)}

\* parse_round_events.py, lines 14-18: strptime on the first 19 characters,
\* None when it raises.
parse_line_dt(line) ==
    IF line.ts = None \/ strptime(line.ts) = ValueError
    THEN None
    ELSE strptime(line.ts)

\* A window test that leaves out the line at the end bound.
InWindow_EndExcluded(start_dt, dt, end_dt) == start_dt <= dt /\ dt < end_dt

\* start_dt <= dt <= end_dt
InWindow(start_dt, dt, end_dt) == start_dt <= dt /\ dt <= end_dt

RECURSIVE read_lines_in_window(_, _, _)
\* parse_round_events.py, lines 34-40.
read_lines_in_window(lines, start_dt, end_dt) ==
    IF lines = <<>> THEN <<>>
    ELSE LET dt == parse_line_dt(Head(lines))
             rest == read_lines_in_window(Tail(lines), start_dt, end_dt)
         IN  IF dt # None /\ InWindow(start_dt, dt, end_dt)
             THEN <<Head(lines)>> \o rest
             ELSE rest

\* Roster stage, lines 69-72: the text LINE_TS_RE matches, None without it.
extract_line_ts(line) == line.ts

\* Lines 89-99: the exception that leaves iter_lines_in_range, from the
\* window or from the first line whose timestamp text strptime refuses;
\* None when there is none.
extract_events_in_range_raises(lines, start_ts, end_ts) ==
    IF iter_lines_in_range_raises(start_ts, end_ts) # None
    THEN iter_lines_in_range_raises(start_ts, end_ts)
    ELSE IF \E i \in DOMAIN lines :
               /\ extract_line_ts(lines[i]) # None
               /\ parse_ts(extract_line_ts(lines[i])) = ValueError
    THEN ValueError
    ELSE None

RECURSIVE iter_lines_in_range(_, _, _)
\* Lines 84-101, when nothing is raised.
iter_lines_in_range(lines, start_ts, end_ts) ==
    IF lines = <<>> THEN <<>>
    ELSE LET ts == extract_line_ts(Head(lines))
             rest == iter_lines_in_range(Tail(lines), start_ts, end_ts)
         IN  IF ts = None THEN rest
             ELSE IF InWindow(parse_ts(start_ts), parse_ts(ts), parse_ts(end_ts))
             THEN <<Head(lines)>> \o rest
             ELSE rest

\* Lines 104-106.
extract_events_in_range(lines, start_ts, end_ts) ==
    iter_lines_in_range(lines, start_ts, end_ts)

\* TEAM_NAME_RE finds a team line: double quotes, the side in capitals.
TEAM_NAME_RE_matches(line) ==
    /\ line.kind = "team_playing"
    /\ line.q = "dq"
    /\ line.side \in {"CT", "TERRORIST"}

\* A store in which a later line of the scan replaces the side's team.
TeamPut_Overwrite(mapping, side, name) == DictPut(mapping, side, name)

\* Lines 134-135: the first team the scan finds for a side is kept.
TeamPut(mapping, side, name) ==
    IF side \in DOMAIN mapping THEN mapping ELSE DictPut(mapping, side, name)

RECURSIVE TeamScan(_, _, _, _)
\* Lines 120-138: the scan over reversed(events), from line i down; it
\* stops when both sides are known.  The events are the lines
\* iter_lines_in_range yielded, so the timestamp of each one parses.
TeamScan(events, i, target_dt, mapping) ==
    IF i = 0 \/ DOMAIN mapping = {"CT", "TERRORIST"} THEN mapping
    ELSE LET line == events[i]
             ts == extract_line_ts(line)
         IN  IF ts = None THEN TeamScan(events, i - 1, target_dt, mapping)
             ELSE IF parse_ts(ts) > target_dt
             THEN TeamScan(events, i - 1, target_dt, mapping)
             ELSE IF ~TEAM_NAME_RE_matches(line)
             THEN TeamScan(events, i - 1, target_dt, mapping)
             ELSE TeamScan(events, i - 1, target_dt,
                           TeamPut(mapping, line.side, line.team))

\* mapping.setdefault(side, label)
SetDefault(mapping, side, label) ==
    IF side \in DOMAIN mapping THEN mapping ELSE DictPut(mapping, side, label)

\* Lines 112-142.
team_names_at_ts(events, target_ts) ==
    SetDefault(SetDefault(TeamScan(events, Len(events), parse_ts(target_ts),
                                   <<>>),
                          "CT", "CT"),
               "TERRORIST", "TERRORIST")

NoTeamMap == [CT |-> NoneStr, TERRORIST |-> NoneStr]

NoLines == [run |-> FALSE, lines |-> <<>>]

NoRoster == [run |-> FALSE, raised |-> None, events |-> <<>>,
             start_team_map |-> NoTeamMap, end_team_map |-> NoTeamMap]

\* load_match_window and load_frame read the window of the descriptor.
W_Load ==
    /\ w_pc = "loading"
    /\ w_pc' = "reading"
    /\ \E window \in W_Windows : w_window' = window
    /\ UNCHANGED <<w_lines, w_grouper, w_roster, w_others>>

\* One more line of the raw log.
W_AddLine ==
    /\ w_pc = "reading"
    /\ Len(w_lines) < MaxWindowLines
    /\ \E line \in W_Lines : w_lines' = Append(w_lines, line)
    /\ UNCHANGED <<w_pc, w_window, w_grouper, w_roster, w_others>>

\* The lines of a raw log of team announcements: for each side at both
\* bounds of the window, one before the window, one written with single
\* quotes, and a line that announces nothing.
W_TeamLines ==
    {TeamPlayingLine(1, "dq", "TERRORIST", "TeamZ"),
     TeamPlayingLine(2, "dq", "CT", "TeamA"),
     TeamPlayingLine(2, "dq", "TERRORIST", "TeamB"),
     TeamPlayingLine(3, "dq", "CT", "TeamB"),
     TeamPlayingLine(3, "dq", "TERRORIST", "TeamA"),
     TeamPlayingLine(3, "sq", "CT", "TeamX"),
     PlainLine(3)}

\* One more line of a raw log of team announcements.
W_AddTeamLine ==
    /\ w_pc = "reading"
    /\ Len(w_lines) < MaxWindowLines
    /\ \E line \in W_TeamLines : w_lines' = Append(w_lines, line)
    /\ UNCHANGED <<w_pc, w_window, w_grouper, w_roster, w_others>>

\* parse_round_events.main, line 79: the windowed lines.
W_Grouper ==
    /\ w_pc \in {"reading", "closed"}
    /\ ~w_grouper.run
    /\ w_pc' = "closed"
    /\ w_grouper' =
          [run |-> TRUE,
           lines |-> read_lines_in_window(w_lines, w_window[1], w_window[2])]
    /\ UNCHANGED <<w_window, w_lines, w_roster, w_others>>

\* main of the roster stage, lines 280-286: the events of the window and
\* the team maps at its two ends, or the exception that ends main.
W_Roster ==
    /\ w_pc \in {"reading", "closed"}
    /\ ~w_roster.run
    /\ w_pc' = "closed"
    /\ LET start_ts == w_window[1]
           end_ts == w_window[2]
           exception == extract_events_in_range_raises(w_lines, start_ts, end_ts)
           events == extract_events_in_range(w_lines, start_ts, end_ts)
       IN  w_roster' =
              IF exception # None
              THEN [NoRoster EXCEPT !.run = TRUE, !.raised = exception]
              ELSE [run |-> TRUE, raised |-> None, events |-> events,
                    start_team_map |-> team_names_at_ts(events, start_ts),
                    end_team_map |-> team_names_at_ts(events, end_ts)]
    /\ UNCHANGED <<w_window, w_lines, w_grouper, w_others>>

W_Init ==
    /\ w_pc = "loading"
    /\ w_window = <<None, None>>
    /\ w_lines = <<>>
    /\ w_grouper = NoLines
    /\ w_roster = NoRoster

W_Next == W_Load \/ W_AddLine \/ W_Grouper \/ W_Roster

W_TeamNext == W_Load \/ W_AddTeamLine \/ W_Grouper \/ W_Roster

(***************************************************************************)
(* match_overview2json.py                                                  *)
(***************************************************************************)

\* Longest line list given to match_overview2json.main.
MaxOverviewLines == 4

\* A line of the JSON line array: its timestamp (None when TS_RE does not
\* match) and its body, of which the regular expressions read the kind, the
\* side and team of a 'Team playing' status, and the scores of a notice or
\* score status.
M_Body(kind, side, team, ct, t) ==
    [kind |-> kind, side |-> side, team |-> team, ct |-> ct, t |-> t]

M_Bodies ==
    {M_Body("Round_Start", "", "", 0, 0),
     M_Body("Round_End", "", "", 0, 0),
     M_Body("Match_Start", "", "de_nuke", 0, 0),
     M_Body("Notice", "CT", "CTs_Win", 1, 0),
     M_Body("Notice", "TERRORIST", "Terrorists_Win", 0, 1),
     M_Body("TeamPlaying", "CT", "TeamA", 0, 0),
     M_Body("TeamPlaying", "TERRORIST", "TeamB", 0, 0),
     M_Body("TeamPlaying", "CT", "TeamB", 0, 0),
     M_Body("TeamPlaying", "TERRORIST", "TeamA", 0, 0),
     M_Body("Score", "", "de_nuke", 1, 0),
     M_Body("Score", "", "de_nuke", 0, 1),
     M_Body("other", "", "", 0, 0)}

M_Lines == {[ts |-> ts, body |-> b] : ts \in {None, 1}, b \in M_Bodies}

\* parse_ts_body: the timestamp (None without the prefix) and the body.
parse_ts_body(line) == <<line.ts, line.body>>

winner_side_from_notice(notice_side) == IF notice_side = "CT" THEN "CT" ELSE "T"

NoOpenRound == [round_no |-> None]

NoScore == [CT |-> None, T |-> None]

\* Lines 71-80: a new open round.
NewRound(rounds, ts) ==
    [round_no |-> Len(rounds) + 1, start_ts |-> ts, end_ts |-> None,
     complete |-> FALSE, winner_side |-> NoneStr, winner_team |-> NoneStr,
     score_after |-> NoScore, notice |-> NoneStr]

\* A round start that forgets the round left open.
CloseUnfinished_Dropped(rounds, open_round) == rounds

\* Lines 67-69 and 99-101: a round left open is kept, marked incomplete.
CloseUnfinished(rounds, open_round) ==
    IF open_round # NoOpenRound
    THEN Append(rounds, [open_round EXCEPT !.complete = FALSE])
    ELSE rounds

\* One iteration of the loop of main over one line.
M_ReadLine ==
    /\ m_pc = "reading"
    /\ Len(m_markers) < MaxOverviewLines
    /\ \E line \in M_Lines :
        LET ts == parse_ts_body(line)[1]
            body == parse_ts_body(line)[2]
        IN  /\ m_markers' =
                  IF body.kind \in {"Round_Start", "Round_End"}
                  THEN Append(m_markers, [kind |-> body.kind, ts |-> ts,
                                          win_side |-> NoneStr,
                                          win_team |-> NoneStr])
                  ELSE IF body.kind = "Notice" /\ m_open_round # NoOpenRound
                  THEN Append(m_markers,
                              [kind |-> "other", ts |-> None,
                               win_side |-> winner_side_from_notice(body.side),
                               win_team |->
                                   DictGet(m_teams,
                                           winner_side_from_notice(body.side),
                                           NoneStr)])
                  ELSE Append(m_markers, [kind |-> "other", ts |-> None,
                                          win_side |-> NoneStr,
                                          win_team |-> NoneStr])
            /\ m_map' = IF body.kind = "Match_Start" THEN body.team ELSE m_map
            /\ m_teams' =
                  IF body.kind = "TeamPlaying"
                  THEN DictPut(m_teams, IF body.side = "CT" THEN "CT" ELSE "T",
                               body.team)
                  ELSE m_teams
            /\ m_last_score' =
                  IF body.kind = "Score" THEN [CT |-> body.ct, T |-> body.t]
                  ELSE m_last_score
            /\ IF body.kind = "Round_Start"
               THEN /\ m_rounds' = CloseUnfinished(m_rounds, m_open_round)
                    /\ m_open_round' = NewRound(m_rounds', ts)
               ELSE IF body.kind = "Notice" /\ m_open_round # NoOpenRound
               THEN /\ m_open_round' =
                          [m_open_round EXCEPT
                              !.winner_side = winner_side_from_notice(body.side),
                              !.notice = body.team,
                              !.score_after = [CT |-> body.ct, T |-> body.t]]
                    /\ m_rounds' = m_rounds
               ELSE IF body.kind = "Round_End" /\ m_open_round # NoOpenRound
               THEN /\ m_rounds' =
                          Append(m_rounds,
                                 [m_open_round EXCEPT !.end_ts = ts,
                                                      !.complete = TRUE])
                    /\ m_open_round' = NoOpenRound
               ELSE UNCHANGED <<m_rounds, m_open_round>>
    /\ UNCHANGED <<m_pc, m_out, m_others>>

\* Lines 104-107: winner_team from the final team-by-side mapping.
ResolveWinnerTeam(rounds, teams) ==
    [i \in DOMAIN rounds |->
        IF rounds[i].winner_side \in {"CT", "T"}
        THEN [rounds[i] EXCEPT
                 !.winner_team = DictGet(teams, rounds[i].winner_side, NoneStr)]
        ELSE rounds[i]]

NoOut == [rounds |-> <<>>, written |-> FALSE]

\* Lines 98-134: the input has ended.
M_Finish ==
    /\ m_pc = "reading"
    /\ m_pc' = "done"
    /\ LET rounds == ResolveWinnerTeam(CloseUnfinished(m_rounds, m_open_round),
                                       m_teams)
           ct == m_last_score.CT
           t == m_last_score.T
       IN  /\ m_rounds' = rounds
           /\ m_out' =
                 [rounds |-> rounds,
                  written |-> TRUE,
                  rounds_started |->
                      Cardinality({i \in DOMAIN rounds : rounds[i].start_ts # None}),
                  rounds_completed |->
                      Cardinality({i \in DOMAIN rounds : rounds[i].complete}),
                  final_score |-> m_last_score,
                  winner_team |->
                      IF m_last_score = NoScore THEN NoneStr
                      ELSE IF ct > t THEN DictGet(m_teams, "CT", NoneStr)
                      ELSE IF t > ct THEN DictGet(m_teams, "T", NoneStr)
                      ELSE NoneStr,
                  incomplete_rounds |->
                      SelectSeq([i \in DOMAIN rounds |->
                                    IF rounds[i].complete THEN None
                                    ELSE rounds[i].round_no],
                                LAMBDA n : n # None)]
    /\ UNCHANGED <<m_markers, m_teams, m_map, m_last_score, m_open_round, m_others>>

M_Init ==
    /\ m_pc = "reading"
    /\ m_markers = <<>>
    /\ m_teams = <<>>
    /\ m_map = NoneStr
    /\ m_last_score = NoScore
    /\ m_rounds = <<>>
    /\ m_open_round = NoOpenRound
    /\ m_out = NoOut

M_Next == M_ReadLine \/ M_Finish

(***************************************************************************)
(* Specifications: one per program, the other programs' variables at rest. *)
(***************************************************************************)

Init ==
    /\ P_Init /\ R_Init /\ G_Init /\ M_Init /\ X_Init /\ F_Init /\ C_Init
    /\ W_Init /\ T_Init

SpecParse == Init /\ [][P_Next]_vars

SpecParseKills == Init /\ [][P_KillNext]_vars

SpecRound == Init /\ [][R_Next]_vars

SpecRoundScores == Init /\ [][R_ScoreNext]_vars

SpecRoundHeadshots == Init /\ [][R_HeadshotNext]_vars

SpecGroup == Init /\ [][G_Next]_vars

SpecOverview == Init /\ [][M_Next]_vars

SpecExtend == Init /\ [][X_Next]_vars

SpecFaceit == Init /\ [][F_Next]_vars

SpecFaceitTeams == Init /\ [][F_TeamNext]_vars

SpecTotalRounds == Init /\ [][T_Next]_vars

SpecClassify == Init /\ [][C_Next]_vars

SpecWindow == Init /\ [][W_Next]_vars

SpecWindowTeams == Init /\ [][W_TeamNext]_vars

(***************************************************************************)
(* Claims about parse.py (checked under SpecParse)                         *)
(***************************************************************************)

\* What the raw input says about line i, read off the line itself.
P_IsOk(i) == p_consumed[i].ts = "ok"

P_IsStartLine(i) == P_IsOk(i) /\ p_consumed[i].msg.trigger = "Round_Start"

P_IsEndLine(i) ==
    P_IsOk(i) /\ p_consumed[i].msg.trigger
                    \in {"Round_End", "Round_Officially_End", "Round_Ended"}

P_IsRestartLine(i) ==
    P_IsOk(i) /\ p_consumed[i].msg.trigger = "Restart_Round_(1_second)"

P_IsMarkerLine(i) == P_IsStartLine(i) \/ P_IsEndLine(i) \/ P_IsRestartLine(i)

\* Line i comes after a Round_Start with no round end or restart in between.
P_InsideRound(i) ==
    \E j \in 1..(i - 1) :
        /\ P_IsStartLine(j)
        /\ \A k \in (j + 1)..(i - 1) : ~(P_IsEndLine(k) \/ P_IsRestartLine(k))

\* The rows yielded for input line i (none or one).
P_RowsOf(i) == {n \in DOMAIN p_rows : p_rows[n].src = i}

\* The row of the nearest Round_Start before row n (0 when there is none).
P_OpeningRow(n) ==
    LET starts == {m \in 1..(n - 1) : P_IsStartLine(p_rows[m].src)}
    IN  IF starts = {} THEN 0
        ELSE CHOOSE m \in starts : \A x \in starts : x <= m

\* C1: a restart marker sets in_round to false and the round index to 0; the
\* restart row is yielded with round index 0, and the first Round_Start row
\* after it is yielded with round index 1 whatever the index was before.
C1_RestartResetsRound ==
    /\ (p_consumed # <<>> /\ P_IsRestartLine(Len(p_consumed)))
          => /\ p_in_round = FALSE
             /\ p_current_round = 0
    /\ \A i \in DOMAIN p_consumed :
          P_IsRestartLine(i)
             => /\ Cardinality(P_RowsOf(i)) = 1
                /\ \A n \in P_RowsOf(i) : p_rows[n].round = 0
    /\ \A n \in DOMAIN p_rows : \A m \in (n + 1)..Len(p_rows) :
          ( /\ P_IsRestartLine(p_rows[n].src)
            /\ P_IsStartLine(p_rows[m].src)
            /\ \A k \in (n + 1)..(m - 1) : ~P_IsStartLine(p_rows[k].src) )
             => p_rows[m].round = 1

\* A restart arrives when the round index is 2, and the next Round_Start
\* is yielded as round 1.
C1_Witness ==
    \E n \in DOMAIN p_rows : \E m \in (n + 1)..Len(p_rows) :
        /\ n > 1
        /\ p_rows[n - 1].round = 2
        /\ P_IsRestartLine(p_rows[n].src)
        /\ P_IsStartLine(p_rows[m].src)
        /\ p_rows[m].round = 1

\* C2: a timestamped non-marker line is yielded if and only if it comes
\* after a Round_Start with no round end or restart in between, and then
\* carries the current round index; a round-end marker is yielded with the
\* index of the round it closes, and in_round is false after it.
C2_YieldedIffInsideRound ==
    /\ \A i \in DOMAIN p_consumed :
          (P_IsOk(i) /\ ~P_IsMarkerLine(i))
             => /\ (P_RowsOf(i) # {}) <=> P_InsideRound(i)
                /\ \A n \in P_RowsOf(i) :
                      /\ P_OpeningRow(n) # 0
                      /\ p_rows[n].round = p_rows[P_OpeningRow(n)].round
    /\ \A i \in DOMAIN p_consumed :
          P_IsEndLine(i)
             => /\ Cardinality(P_RowsOf(i)) = 1
                /\ P_InsideRound(i)
                      => \A n \in P_RowsOf(i) :
                            p_rows[n].round = p_rows[P_OpeningRow(n)].round
    /\ (p_consumed # <<>> /\ P_IsEndLine(Len(p_consumed)))
          => p_in_round = FALSE

\* A kill line inside a round is yielded, the round end is yielded, and a
\* kill line after the round end is dropped.
C2_Witness ==
    \E i \in DOMAIN p_consumed :
        /\ i > 2
        /\ P_IsOk(i) /\ ~P_IsMarkerLine(i) /\ P_RowsOf(i) = {}
        /\ P_IsEndLine(i - 1) /\ P_RowsOf(i - 1) # {}
        /\ P_IsOk(i - 2) /\ ~P_IsMarkerLine(i - 2) /\ P_RowsOf(i - 2) # {}

\* The input holds a complete round: a Round_Start and the end that closes it.
P_HasCompleteRound ==
    \E i \in DOMAIN p_consumed : P_IsEndLine(i) /\ P_InsideRound(i)

P_PositiveRounds(df) == {r \in {df[n].round : n \in DOMAIN df} : r >= 1}

\* C3: for an input with at least one complete round, the positive round
\* indices of parse_to_dataframe's output are {1..max} without gaps, and
\* each Round_Start row carries the previous round index plus 1, or 1 when
\* the index was unset or 0.
C3_RoundIndicesDense ==
    (p_pc = "done" /\ P_HasCompleteRound)
       => /\ \E max \in 1..Len(p_df) : P_PositiveRounds(p_df) = 1..max
          /\ \A n \in DOMAIN p_df :
                P_IsStartLine(p_df[n].src)
                   => p_df[n].round =
                         IF n = 1 \/ p_df[n - 1].round \in {None, 0}
                         THEN 1
                         ELSE p_df[n - 1].round + 1

\* A finished run with a complete round, a second round and a restart.
C3_Witness ==
    /\ p_pc = "done"
    /\ P_HasCompleteRound
    /\ \E n \in DOMAIN p_df : p_df[n].round = 2
    /\ \E n \in DOMAIN p_df : p_df[n].round = 0

\* The round a row is attributed to: ParsedLine has the round field only.
RoundIdentity(row) == row.round

\* C4: after rounds 1 and 2 and a restart, the rows of the round that starts
\* after the restart are not attributed to the same round identity as the
\* rows of the round 1 played before the restart.
C4_PostRestartRoundDistinct ==
    \A i \in DOMAIN p_rows : \A r \in DOMAIN p_rows : \A j \in DOMAIN p_rows :
        ( /\ i < r /\ r < j
          /\ P_IsRestartLine(p_rows[r].src)
          /\ \A k \in 1..(r - 1) : ~P_IsRestartLine(p_rows[k].src)
          /\ \E h \in 1..(r - 1) : p_rows[h].round = 2
          /\ p_rows[i].round = 1
          /\ P_IsStartLine(p_rows[j].src)
          /\ \A k \in (r + 1)..(j - 1) : ~P_IsStartLine(p_rows[k].src) )
           => RoundIdentity(p_rows[i]) # RoundIdentity(p_rows[j])

\* The round indices of the yielded rows that are not null.
P_RoundsYielded ==
    {p_rows[n].round : n \in {k \in DOMAIN p_rows : p_rows[k].round # None}}

\* C30: the least round index that is not null among the rows
\* iter_parsed_lines yields is 0 or 1, the row of the first Round_Start being
\* yielded with index 1, so that parse_to_dataframe shifts nothing and every
\* row of the frame keeps its index.
C30_NormalisationNeverShifts ==
    /\ P_RoundsYielded # {}
          => /\ \A r \in P_RoundsYielded : r >= 0
             /\ 0 \in P_RoundsYielded \/ 1 \in P_RoundsYielded
    /\ \A n \in DOMAIN p_rows :
          (P_IsStartLine(p_rows[n].src)
              /\ \A k \in 1..(n - 1) : ~P_IsStartLine(p_rows[k].src))
             => p_rows[n].round = 1
    /\ \A i \in DOMAIN p_consumed : P_IsStartLine(i) => P_RowsOf(i) # {}
    /\ p_pc = "done" => p_df = p_rows

\* A frame with a row of null index, read before any round started, and
\* rows of the rounds 1 and 2, all as they were yielded.
C30_Witness ==
    /\ p_pc = "done"
    /\ p_rows # <<>>
    /\ p_rows[1].round = None
    /\ P_RoundsYielded = {1, 2}
    /\ p_df = p_rows

(***************************************************************************)
(* Claims about the kill fields of parse.py (checked under SpecParseKills) *)
(***************************************************************************)

\* Input line i is a kill line in which fewer than two player tokens parse.
P_IsPartialKill(i) ==
    /\ P_IsOk(i)
    /\ p_consumed[i].msg.killed
    /\ Len(p_consumed[i].msg.players) < 2

\* C22: an in-round kill line in which fewer than two player tokens parse
\* yields a row all the same; the row has no attacker and no victim, the
\* weapon of the line's weapon clause (none without the clause) and the
\* headshot flag of its (headshot) marker.
C22_PartialKillStillYielded ==
    \A i \in DOMAIN p_consumed :
        (P_IsPartialKill(i) /\ P_InsideRound(i))
           => /\ Cardinality(P_RowsOf(i)) = 1
              /\ \A n \in P_RowsOf(i) :
                    /\ p_rows[n].attacker = NoneStr
                    /\ p_rows[n].victim = NoneStr
                    /\ p_rows[n].weapon
                          = (IF p_consumed[i].msg.weapon = "" THEN NoneStr
                             ELSE p_consumed[i].msg.weapon)
                    /\ p_rows[n].is_headshot
                          = (IF p_consumed[i].msg.hs THEN "True" ELSE "False")

\* A kill line with one player token, inside a round, has a row without
\* attacker and victim that holds the weapon and a set headshot flag.
C22_Witness ==
    \E n \in DOMAIN p_rows :
        /\ P_IsPartialKill(p_rows[n].src)
        /\ P_InsideRound(p_rows[n].src)
        /\ Len(p_rows[n].msg.players) = 1
        /\ p_rows[n].attacker = NoneStr
        /\ p_rows[n].victim = NoneStr
        /\ p_rows[n].weapon = "awp"
        /\ p_rows[n].is_headshot = "True"

(***************************************************************************)
(* Claims about the window readers (checked under SpecWindow)              *)
(***************************************************************************)

\* Line i of the raw log has a timestamp inside the window, bounds included.
W_InsideWindow(i) ==
    /\ w_lines[i].ts \notin {None, BadDate}
    /\ w_window[1] <= w_lines[i].ts
    /\ w_lines[i].ts <= w_window[2]

RECURSIVE W_Inside(_)
\* The lines of the first n lines of the log that are inside the window,
\* in input order.
W_Inside(n) ==
    IF n = 0 THEN <<>>
    ELSE IF W_InsideWindow(n) THEN Append(W_Inside(n - 1), w_lines[n])
    ELSE W_Inside(n - 1)

\* C24: read_lines_in_window and iter_lines_in_range both return, in input
\* order, exactly the lines whose timestamp t has start <= t <= end, the
\* lines at the bounds included and the lines without a timestamp left out.
C24_ExactlyTheWindow ==
    /\ w_grouper.run => w_grouper.lines = W_Inside(Len(w_lines))
    /\ w_roster.run
          => /\ w_roster.raised = None
             /\ w_roster.events = W_Inside(Len(w_lines))

(***************************************************************************)
(* Claims about team_names_at_ts (checked under SpecWindowTeams)           *)
(***************************************************************************)

\* The events that announce the team of a side at or before the target.
W_Announcing(side, target_ts) ==
    {i \in DOMAIN w_roster.events :
        /\ w_roster.events[i].kind = "team_playing"
        /\ w_roster.events[i].q = "dq"
        /\ w_roster.events[i].side = side
        /\ w_roster.events[i].ts # None
        /\ w_roster.events[i].ts <= target_ts}

\* The team of the last of them in input order, the side's own label when
\* there is none.
W_TeamAt(side, target_ts) ==
    LET lines == W_Announcing(side, target_ts)
    IN  IF lines = {} THEN side
        ELSE w_roster.events[CHOOSE i \in lines : \A j \in lines : j <= i].team

\* C28: team_names_at_ts maps each side to the team of the latest 'Team
\* playing' line, latest in input order, whose timestamp is at or before
\* the target; lines after the target are ignored, and a side without such
\* a line maps to its own label, CT or TERRORIST.
C28_LatestTeamAtOrBefore ==
    (w_roster.run /\ w_roster.raised = None)
       => \A side \in {"CT", "TERRORIST"} :
             /\ w_roster.start_team_map[side] = W_TeamAt(side, w_window[1])
             /\ w_roster.end_team_map[side] = W_TeamAt(side, w_window[2])

\* The side CT is announced at the end of the window and, on a later line
\* of the log, at its start; a third announcement is written with single
\* quotes.  The map at the start ignores the line after the target, the map
\* at the end has the team of the later line of the input, and the other
\* side, announced only before the window, keeps its label.
C28_Witness ==
    /\ w_roster.run
    /\ w_window = <<2, 3>>
    /\ w_lines = <<TeamPlayingLine(1, "dq", "TERRORIST", "TeamZ"),
                   TeamPlayingLine(3, "dq", "CT", "TeamB"),
                   TeamPlayingLine(2, "dq", "CT", "TeamA"),
                   TeamPlayingLine(3, "sq", "CT", "TeamX")>>
    /\ w_roster.start_team_map = [CT |-> "TeamA", TERRORIST |-> "TERRORIST"]
    /\ w_roster.end_team_map = [CT |-> "TeamA", TERRORIST |-> "TERRORIST"]

(***************************************************************************)
(* Claims about classify_event (checked under SpecClassify)                *)
(***************************************************************************)

\* The label rule 1 gives for the trigger names the inputs use.
C_TriggerLabel ==
    IF c_msg.trigger = "Round_Start" THEN "trigger_round_start"
    ELSE "trigger_restart_round_1_second"

\* The labels of rule 4, in the order the rule tries its phrases.
C_SystemLabel ==
    IF "connected" \in c_msg.sys THEN "connect"
    ELSE IF "entered" \in c_msg.sys THEN "enter_game"
    ELSE IF "disconnected" \in c_msg.sys THEN "disconnect"
    ELSE IF "switched" \in c_msg.sys THEN "team_switch"
    ELSE "chat"

\* C21: classify_event gives one label to every message body by the first
\* of its five rules that matches: a body with a  triggered "X"  marker is
\* labelled trigger_<slug(X)> even when a player-verb pattern matches too,
\* and a body that matches no rule is labelled "other".
C21_FirstRuleWins ==
    c_label # NoneStr
       => IF c_msg.trigger # "" THEN c_label = C_TriggerLabel
          ELSE IF c_msg.verb # ""
          THEN c_label = (IF c_msg.verb = "killed" THEN "killed"
                          ELSE "picked_up")
          ELSE IF c_msg.action # ""
          THEN c_label = c_msg.action
          ELSE IF c_msg.sys # {} THEN c_label = C_SystemLabel
          ELSE c_label = "other"

\* A body with a trigger marker in which the player-verb pattern, the
\* player-action pattern and a system phrase are found as well.
C21_Witness ==
    /\ c_msg.trigger = "Restart_Round_(1_second)"
    /\ c_msg.verb = "picked up"
    /\ c_msg.action = "killed"
    /\ c_msg.sys = {"say"}
    /\ c_label = "trigger_restart_round_1_second"

(***************************************************************************)
(* Claims about extend_round_events.py (checked under SpecRound)           *)
(***************************************************************************)

\* The line holds the words "killed other", in some letter case.
R_SaysKilledOther(line) ==
    \/ line.kind = "killed_other"
    \/ "Killed Other" \in {line.killer, line.victim}

\* The kill lines of the window as the input states them: single-quoted
\* kill lines that do not hold the words "killed other".
R_IsKillLine(line) ==
    line.kind = "kill" /\ line.q = "sq" /\ ~R_SaysKilledOther(line)

R_KillLines == SelectSeq(r_lines, R_IsKillLine)

\* Kills of player p among the first n kill lines.
R_KillsUpTo(p, n) ==
    Cardinality({i \in 1..n : R_KillLines[i].killer = p})

R_Killers == {R_KillLines[i].killer : i \in DOMAIN R_KillLines}

\* The highest final kill count of the round (0 with no kills).
R_MaxKills ==
    IF R_Killers = {} THEN 0
    ELSE CHOOSE k \in 1..Len(R_KillLines) :
            /\ \E p \in R_Killers : R_KillsUpTo(p, Len(R_KillLines)) = k
            /\ \A p \in R_Killers : R_KillsUpTo(p, Len(R_KillLines)) <= k

\* The first kill line at which some player's running count is the maximum.
R_FirstToReachMax ==
    CHOOSE i \in DOMAIN R_KillLines :
        /\ R_KillsUpTo(R_KillLines[i].killer, i) = R_MaxKills
        /\ \A j \in 1..(i - 1) :
              R_KillsUpTo(R_KillLines[j].killer, j) < R_MaxKills

\* The first attacker, in order of first kill, whose final count is the
\* maximum: the head of a stable sort of the final counts.
R_FirstInStableSort ==
    LET i == CHOOSE i \in DOMAIN R_KillLines :
                 /\ R_KillsUpTo(R_KillLines[i].killer, Len(R_KillLines)) = R_MaxKills
                 /\ \A j \in 1..(i - 1) :
                       R_KillsUpTo(R_KillLines[j].killer, Len(R_KillLines)) < R_MaxKills
    IN  R_KillLines[i].killer

\* C9: compute_round_mvp returns the highest per-attacker kill count of the
\* round and, among attackers sharing it, the one who reached it first in
\* event order.
C9_MvpFirstToReachMax ==
    (r_pc = "done" /\ R_KillLines # <<>>)
       => /\ r_summary.mvp_kills = R_MaxKills
          /\ r_summary.mvp_kills_player = R_KillLines[R_FirstToReachMax].killer

\* Two attackers tie at the maximum and the MVP is not the head of a stable
\* sort of the final counts.
C9_Witness ==
    /\ r_pc = "done"
    /\ R_KillLines # <<>>
    /\ r_summary.mvp_kills = 2
    /\ r_summary.mvp_kills_player # R_FirstInStableSort

\* C10: total_kills is the number of kill events and mvp_kills <= total_kills;
\* with no kills mvp_kills is 0 and the player null, with a kill mvp_kills >= 1
\* and the player is the killed_by of a kill event of the round.
C10_SummaryCounts ==
    r_pc = "done"
       => /\ r_summary.total_kills = Len(r_summary.kill_events)
          /\ r_summary.total_kills = Len(R_KillLines)
          /\ r_summary.mvp_kills <= r_summary.total_kills
          /\ r_summary.kill_events = <<>>
                => /\ r_summary.mvp_kills = 0
                   /\ r_summary.mvp_kills_player = NoneStr
          /\ r_summary.kill_events # <<>>
                => /\ r_summary.mvp_kills >= 1
                   /\ \E i \in DOMAIN r_summary.kill_events :
                         r_summary.kill_events[i].killed_by
                            = r_summary.mvp_kills_player

\* A round of three kills with an MVP of fewer kills than the total.
C10_Witness ==
    /\ r_pc = "done"
    /\ r_summary.total_kills = 3
    /\ r_summary.mvp_kills = 2
    /\ r_summary.mvp_kills_player = "A"

\* C13: a line that holds the words "killed other", in any letter case and
\* whatever its weapon or headshot marker, gives no kill event: it counts
\* neither in total_kills, nor for the MVP of the round, nor in the kill
\* tally of the match.
C13_KilledOtherNeverCounts ==
    r_pc = "done"
       => /\ r_summary.total_kills = Len(R_KillLines)
          /\ \A i \in DOMAIN r_summary.kill_events :
                r_summary.kill_events[i].killed_by # "Killed Other"
          /\ r_summary.mvp_kills = R_MaxKills
          /\ r_summary.mvp_kills_player # "Killed Other"
          /\ IF R_KillLines = <<>>
             THEN r_overview.mvp_kills = NoMvpKills
             ELSE /\ r_overview.mvp_kills.kills = R_MaxKills
                  /\ r_overview.mvp_kills.player # "Killed Other"

\* A window with a headshot "killed other" line, twice a kill line that
\* holds the words in a name, and one kill that counts.
C13_Witness ==
    /\ r_pc = "done"
    /\ \E i \in DOMAIN r_lines :
          r_lines[i].kind = "killed_other" /\ r_lines[i].hs
    /\ Cardinality({i \in DOMAIN r_lines :
                       r_lines[i].killer = "Killed Other"}) = 2
    /\ r_summary.total_kills = 1
    /\ r_overview.mvp_kills.kills = 1

(***************************************************************************)
(* Claims about the headshot flag (checked under SpecRoundHeadshots)       *)
(***************************************************************************)

\* C23: the is_headshot flag of a kill event is true exactly when the kill
\* line carries the (headshot) marker; the word "headshot" in a player name
\* or a weapon name does not set it.
C23_HeadshotIffMarker ==
    r_pc = "done"
       => /\ Len(r_summary.kill_events) = Len(r_lines)
          /\ \A i \in DOMAIN r_summary.kill_events :
                r_summary.kill_events[i].is_headshot <=> r_lines[i].hs

(***************************************************************************)
(* Claims about the winner and the times of a round (checked under         *)
(* SpecRoundScores)                                                        *)
(***************************************************************************)

\* Line i of the window announces a score of the side, in any letter case.
R_Announces(i, side) ==
    /\ r_lines[i].kind = "scored"
    /\ r_lines[i].side \in (IF side = "CT" THEN {"CT", "ct"}
                            ELSE {"TERRORIST", "terrorist"})

\* The score of the side's last announcement in the window, None without one.
R_LastScore(side) ==
    LET S == {i \in DOMAIN r_lines : R_Announces(i, side)}
    IN  IF S = {} THEN None
        ELSE r_lines[CHOOSE i \in S : \A j \in S : j <= i].score

\* The score of the side's first announcement in the window.
R_FirstScore(side) ==
    LET S == {i \in DOMAIN r_lines : R_Announces(i, side)}
    IN  IF S = {} THEN None
        ELSE r_lines[CHOOSE i \in S : \A j \in S : i <= j].score

\* C11: the winning side is the side whose last score announcement in the
\* window is strictly greater; with equal last scores, or a side without an
\* announcement, winning_side and winning_team are both null.
C11_WinnerByLastScores ==
    r_pc = "done"
       => LET ct == R_LastScore("CT")
              t == R_LastScore("TERRORIST")
          IN  IF ct # None /\ t # None /\ ct # t
              THEN r_summary.winning_side
                      = (IF ct > t THEN "CT" ELSE "TERRORIST")
              ELSE /\ r_summary.winning_side = NoneStr
                   /\ r_summary.winning_team = NoneStr

\* CT wins by its last announcement although its first one only equalled
\* the other side's score, and its team is known.
C11_Witness ==
    /\ r_pc = "done"
    /\ R_LastScore("CT") = 10
    /\ R_FirstScore("CT") = 8
    /\ R_LastScore("TERRORIST") = 8
    /\ r_summary.winning_side = "CT"
    /\ r_summary.winning_team = "TeamA"

\* The timestamps the lines of the window carry.
R_Timestamps ==
    {r_lines[i].ts : i \in DOMAIN r_lines} \ {None, BadDate}

R_MinTimestamp == CHOOSE x \in R_Timestamps : \A y \in R_Timestamps : x <= y

R_MaxTimestamp == CHOOSE x \in R_Timestamps : \A y \in R_Timestamps : y <= x

\* C12: the length of a round is its latest timestamp minus its earliest,
\* hence never negative whatever the order of the lines; a window with no
\* line, or with no line that has a timestamp prefix, is summarised without
\* an exception and with round_start, round_end and round_length_seconds
\* null.
C12_LengthIsMaxMinusMin ==
    /\ r_pc = "done"
          => IF R_Timestamps = {}
             THEN /\ r_summary.round_start = None
                  /\ r_summary.round_end = None
                  /\ r_summary.round_length_seconds = None
             ELSE /\ r_summary.round_length_seconds
                        = R_MaxTimestamp - R_MinTimestamp
                  /\ r_summary.round_length_seconds >= 0
    /\ r_pc = "raised" => \E i \in DOMAIN r_lines : r_lines[i].ts # None

\* The window begins with its latest line, after midnight, and an earlier
\* line of the day before follows.
C12_Witness ==
    /\ r_pc = "done"
    /\ Len(r_lines) >= 2
    /\ r_lines[1].ts = 86410
    /\ r_lines[2].ts = 86390
    /\ r_summary.round_length_seconds = 86405
    /\ r_summary.round_start = 5
    /\ r_summary.round_end = 10

(***************************************************************************)
(* Claims about run of extend_round_events.py (checked under SpecExtend)   *)
(***************************************************************************)

\* The input file holds a JSON document with a "rounds" object.
X_HasRounds == x_file = "json" /\ "rounds" \in DOMAIN x_data

\* Round i of the input document is a list of strings.
X_IsListOfStrings(i) ==
    \A j \in DOMAIN x_data.rounds[i].value :
        x_data.rounds[i].value[j].kind # "json_number"

\* The document is one the stage accepts: every round a list of strings.
X_WellFormed == X_HasRounds /\ \A i \in DOMAIN x_data.rounds : X_IsListOfStrings(i)

\* C14: a line whose timestamp is missing or malformed, a prefix with the
\* shape of a timestamp that is no date included, is skipped and never makes
\* the run fail: run on a well-formed document returns 0 and writes its
\* output.
C14_BadTimestampNeverFails ==
    (x_pc = "exited" /\ X_WellFormed) => (x_rc = 0 /\ x_out.written)

\* C15: run returns a non-zero status and writes no output file when the
\* input is no JSON, has no "rounds" object, or has a round that is not a
\* list of strings; an output file is written only with a summary of every
\* round of the input.
C15_InvalidInputNoOutput ==
    x_pc = "exited"
       => /\ (\/ x_file = "not_json"
              \/ x_file = "json" /\ ~X_WellFormed)
                => (x_rc # 0 /\ x_rc # None /\ ~x_out.written)
          /\ x_out.written
                => /\ x_rc = 0
                   /\ X_WellFormed
                   /\ Len(x_out.rounds) = Len(x_data.rounds)
                   /\ \A i \in DOMAIN x_data.rounds :
                         x_out.rounds[i].key = x_data.rounds[i].key

\* Two good rounds are followed by one that holds a number: run fails and
\* nothing is written.
C15_Witness ==
    /\ x_pc = "exited"
    /\ X_HasRounds
    /\ Len(x_data.rounds) = 3
    /\ X_IsListOfStrings(1) /\ X_IsListOfStrings(2) /\ ~X_IsListOfStrings(3)
    /\ x_rc = 1
    /\ ~x_out.written

\* The length of round i of the output document (None when unknown).
X_LengthOf(i) == x_out.rounds[i].value.round_length_seconds

\* The rounds of the output document whose length is known.
X_Known == {i \in DOMAIN x_out.rounds : X_LengthOf(i) # None}

\* The first round, in round order, whose length is the least known one.
X_FirstShortest ==
    CHOOSE i \in X_Known :
        \A j \in X_Known :
            /\ X_LengthOf(i) <= X_LengthOf(j)
            /\ X_LengthOf(i) = X_LengthOf(j) => i <= j

\* The first round, in round order, whose length is the greatest known one.
X_FirstLongest ==
    CHOOSE i \in X_Known :
        \A j \in X_Known :
            /\ X_LengthOf(i) >= X_LengthOf(j)
            /\ X_LengthOf(i) = X_LengthOf(j) => i <= j

\* C17: shortest_round and longest_round are the rounds of least and of
\* greatest round_length_seconds among the rounds whose length is known; of
\* rounds that tie, the first in round order is reported.
C17_ShortestLongestFirstOnTie ==
    x_out.written
       => IF X_Known = {}
          THEN /\ x_out.match_overview.shortest_round = NoRoundRef
               /\ x_out.match_overview.longest_round = NoRoundRef
          ELSE /\ x_out.match_overview.shortest_round.round
                     = x_out.rounds[X_FirstShortest].key
               /\ x_out.match_overview.shortest_round.length_seconds
                     = X_LengthOf(X_FirstShortest)
               /\ x_out.match_overview.longest_round.round
                     = x_out.rounds[X_FirstLongest].key
               /\ x_out.match_overview.longest_round.length_seconds
                     = X_LengthOf(X_FirstLongest)

\* Rounds 1 and 2 tie at ten seconds and round 3 is longer.
C17_Witness ==
    /\ x_out.written
    /\ Len(x_out.rounds) = 3
    /\ X_LengthOf(1) = 10 /\ X_LengthOf(2) = 10 /\ X_LengthOf(3) = 11
    /\ x_out.match_overview.shortest_round.round = "round_1"
    /\ x_out.match_overview.longest_round.round = "round_3"

\* The kill events of the output document, each named by its round and its
\* place in the round.
X_Kills ==
    UNION {{<<i, j>> : j \in DOMAIN x_out.rounds[i].value.kill_events} :
              i \in DOMAIN x_out.rounds}

X_Headshots ==
    {p \in X_Kills : x_out.rounds[p[1]].value.kill_events[p[2]].is_headshot}

\* What kill event p tallies under: its killer, its victim or its weapon.
X_KeyAt(p, what) ==
    LET ev == x_out.rounds[p[1]].value.kill_events[p[2]]
    IN  CASE what = "killer" -> ev.killed_by
          [] what = "victim" -> ev.killed
          [] what = "weapon" -> ev.weapon

X_CountOf(P, what, k) == Cardinality({p \in P : X_KeyAt(p, what) = k})

\* Event p comes before event q in round and event order.
X_Before(p, q) == p[1] < q[1] \/ (p[1] = q[1] /\ p[2] < q[2])

\* The first event of the entry that heads the tally: its count is the
\* highest, and no entry with that count was inserted before it.
X_LeaderEvent(P, what) ==
    CHOOSE p \in P :
        /\ \A q \in P : X_KeyAt(q, what) = X_KeyAt(p, what) => ~X_Before(q, p)
        /\ \A q \in P :
              LET cp == X_CountOf(P, what, X_KeyAt(p, what))
                  cq == X_CountOf(P, what, X_KeyAt(q, what))
              IN  /\ cq <= cp
                  /\ cq = cp => ~X_Before(q, p)

X_LeaderKey(P, what) == X_KeyAt(X_LeaderEvent(P, what), what)

X_LeaderCount(P, what) == X_CountOf(P, what, X_LeaderKey(P, what))

\* C18: the kill leader, the death leader, the top weapon and the headshot
\* leader are the entries of highest count of their tallies; of entries that
\* tie, the one inserted first into the tally is reported.
C18_LeadersFirstInsertedOnTie ==
    x_out.written
       => /\ IF X_Kills = {}
             THEN /\ x_out.match_overview.mvp_kills = NoMvpKills
                  /\ x_out.match_overview.lsp_deaths = NoLspDeaths
                  /\ x_out.match_overview.top_weapon = NoTopWeapon
             ELSE /\ x_out.match_overview.mvp_kills
                        = [player |-> X_LeaderKey(X_Kills, "killer"),
                           kills |-> X_LeaderCount(X_Kills, "killer")]
                  /\ x_out.match_overview.lsp_deaths
                        = [player |-> X_LeaderKey(X_Kills, "victim"),
                           deaths |-> X_LeaderCount(X_Kills, "victim")]
                  /\ x_out.match_overview.top_weapon
                        = [weapon |-> X_LeaderKey(X_Kills, "weapon"),
                           kills |-> X_LeaderCount(X_Kills, "weapon")]
          /\ IF X_Headshots = {}
             THEN x_out.match_overview.most_headshots = NoMostHeadshots
             ELSE x_out.match_overview.most_headshots
                     = [player |-> X_LeaderKey(X_Headshots, "killer"),
                        headshots |-> X_LeaderCount(X_Headshots, "killer")]

\* B and A tie at one kill each, B's kill being the first of the match, and
\* the weapons awp and ak47 tie as well.
C18_Witness ==
    /\ x_out.written
    /\ X_CountOf(X_Kills, "killer", "A") = 1
    /\ X_CountOf(X_Kills, "killer", "B") = 1
    /\ X_CountOf(X_Kills, "weapon", "ak47") = 1
    /\ x_out.match_overview.mvp_kills = [player |-> "B", kills |-> 1]
    /\ x_out.match_overview.lsp_deaths = [player |-> "A", deaths |-> 1]
    /\ x_out.match_overview.top_weapon = [weapon |-> "awp", kills |-> 1]
    /\ x_out.match_overview.most_headshots = [player |-> "B", headshots |-> 1]

RECURSIVE X_SumKnown(_)
\* The sum of the known lengths of the first n rounds.
X_SumKnown(n) ==
    IF n = 0 THEN 0
    ELSE X_SumKnown(n - 1) + (IF n \in X_Known THEN X_LengthOf(n) ELSE 0)

\* The average the overview reports, in seconds.
X_Average ==
    x_out.match_overview.average_round_length.mm * 60
       + x_out.match_overview.average_round_length.ss

\* C19: average_round_length is the mean of round_length_seconds over the
\* rounds whose length is known, a round of unknown length not counting as
\* 0, rounded to the nearest whole second; it is null when no round has a
\* known length.
C19_AverageOverKnownLengths ==
    x_out.written
       => LET n == Cardinality(X_Known)
              total == X_SumKnown(Len(x_out.rounds))
          IN  IF n = 0
              THEN x_out.match_overview.average_round_length = NoMmss
              ELSE /\ 2 * (X_Average * n - total) <= n
                   /\ 2 * (total - X_Average * n) <= n

\* Rounds of 11 and 10 seconds with a round of unknown length between them:
\* the average is 10, the half of 10.5 going to the even side, and not the 7
\* that counting the unknown length as 0 would give.
C19_Witness ==
    /\ x_out.written
    /\ Len(x_out.rounds) = 3
    /\ X_LengthOf(1) = 11 /\ X_LengthOf(2) = None /\ X_LengthOf(3) = 10
    /\ X_Average = 10

(***************************************************************************)
(* Claims about the match window descriptor (checked under SpecFaceit)     *)
(***************************************************************************)

\* The FACEIT lines hold a match-start marker, or a win announcement, that
\* has a timestamp.
F_HasStart ==
    \E i \in DOMAIN f_lines :
        f_lines[i].kind = "match_start" /\ f_lines[i].ts # None

F_HasWin ==
    \E i \in DOMAIN f_lines : f_lines[i].kind = "win" /\ f_lines[i].ts # None

\* C16: without a match-start marker or without a win announcement the
\* descriptor is written with start_dt or end_dt null, and each stage that
\* loads it ends with a non-zero exit status and a clear diagnostic, not
\* with an exception nothing handles.
C16_NullWindowClearDiagnostic ==
    (f_desc.written /\ (~F_HasStart \/ ~F_HasWin))
       => /\ f_desc.start_dt = None \/ f_desc.end_dt = None
          /\ f_grouper # NotRun
                => f_grouper.rc # 0 /\ f_grouper.diagnostic = "clear"
          /\ f_roster # NotRun
                => f_roster.rc # 0 /\ f_roster.diagnostic = "clear"

\* The first match-start marker and the last win announcement of the
\* overlay lines.
F_FirstStart ==
    CHOOSE i \in DOMAIN f_lines :
        /\ f_lines[i].kind = "match_start"
        /\ \A j \in 1..(i - 1) : f_lines[j].kind # "match_start"

F_LastWin ==
    CHOOSE i \in DOMAIN f_lines :
        /\ f_lines[i].kind = "win"
        /\ \A j \in (i + 1)..Len(f_lines) : f_lines[j].kind # "win"

\* C27: for any sequence of overlay lines start_dt is the timestamp of the
\* first match-start marker, which no later marker changes, and end_dt is
\* the timestamp of the last 'Team ... won' line, every one of which
\* overwrites it.
C27_WindowFirstStartLastWin ==
    /\ (\E i \in DOMAIN f_lines : f_lines[i].kind = "match_start")
          => f_start_dt = f_lines[F_FirstStart].ts
    /\ (\E i \in DOMAIN f_lines : f_lines[i].kind = "win")
          => f_end_dt = f_lines[F_LastWin].ts

(***************************************************************************)
(* Claims about the team names (checked under SpecFaceitTeams)             *)
(***************************************************************************)

\* Line i has the [0 - 1] marker between two names that both keep at least
\* two characters when cleaned.
F_NamesPair(i) ==
    /\ f_lines[i].kind = "score01"
    /\ f_lines[i].left \in {"Team NaVi", "Team G2"}
    /\ f_lines[i].right \in {"Team Vitality", "Team Astralis"}

\* Line i has the marker and a name that is too short when cleaned.
F_ShortName(i) ==
    /\ f_lines[i].kind = "score01"
    /\ f_lines[i].left = "Team A." \/ f_lines[i].right = "-"

\* C25: a [0 - 1] line with a team name of fewer than 2 characters after
\* cleanup gives no pair: team_1 and team_2 are set together or not at all,
\* they stay unset while only such lines have been read, and the first
\* later [0 - 1] line with two proper names supplies both.
C25_ShortNameLeavesBothUnset ==
    /\ (f_team_1 = NoneStr) <=> (f_team_2 = NoneStr)
    /\ (\A i \in DOMAIN f_lines : ~F_NamesPair(i))
          => f_team_1 = NoneStr /\ f_team_2 = NoneStr
    /\ \A i \in DOMAIN f_lines :
          (F_NamesPair(i) /\ \A j \in 1..(i - 1) : ~F_NamesPair(j))
             => /\ f_team_1 = (IF f_lines[i].left = "Team NaVi" THEN "NaVi"
                               ELSE "G2")
                /\ f_team_2 = (IF f_lines[i].right = "Team Vitality"
                               THEN "Vitality" ELSE "Astralis")

\* Two marker lines with a name that is too short, then one with two
\* proper names, which supplies the pair.
C25_Witness ==
    /\ Len(f_lines) = 3
    /\ F_ShortName(1) /\ f_lines[1].left = "Team A."
    /\ F_ShortName(2) /\ f_lines[2].right = "-"
    /\ F_NamesPair(3)
    /\ f_team_1 = "G2"
    /\ f_team_2 = "Astralis"

(***************************************************************************)
(* Claims about calculate_total_rounds (checked under SpecTotalRounds)     *)
(***************************************************************************)

\* The lines with a RoundsPlayed field.
T_WithField == {i \in DOMAIN t_lines : t_lines[i].field # ""}

\* The number the field of line i writes.
T_Number(i) ==
    IF t_lines[i].field = "22" THEN 22
    ELSE IF t_lines[i].field = "16" THEN 16
    ELSE IF t_lines[i].field = "007" THEN 7
    ELSE 30

\* C26: calculate_total_rounds returns the value of the last
\* 'RoundsPlayed: N' field of the file, whatever the earlier ones were, and
\* null when the file has none.
C26_LastRoundsPlayed ==
    IF T_WithField = {} THEN t_rounds = None
    ELSE t_rounds
            = T_Number(CHOOSE i \in T_WithField : \A j \in T_WithField : j <= i)

\* A larger value first, then a smaller one, then a line without the
\* field: the smaller value is returned.
C26_Witness ==
    /\ Len(t_lines) = 3
    /\ t_lines[1].field = "22"
    /\ t_lines[2].field = "007"
    /\ t_lines[3].field = ""
    /\ t_rounds = 7

(***************************************************************************)
(* Claims about parse_round_events.py (checked under SpecGroup)            *)
(***************************************************************************)

\* What the windowed input says about line i, read off the line itself.
G_IsStartLine(i) ==
    g_consumed[i].kind = "Round_Start" /\ g_consumed[i].q = "dq"

G_IsEndLine(i) ==
    g_consumed[i].kind = "Round_End" /\ g_consumed[i].q = "dq"

G_Starts == {i \in DOMAIN g_consumed : G_IsStartLine(i)}

\* The line of the k-th Round_Start.
G_NthStart(k) ==
    CHOOSE i \in G_Starts : Cardinality({j \in G_Starts : j <= i}) = k

\* The first marker line after the k-th Round_Start: the Round_End that
\* closes the round or the next Round_Start (past the end when there is none).
G_RoundStop(k) ==
    LET after == {i \in (G_NthStart(k) + 1)..Len(g_consumed) :
                     G_IsStartLine(i) \/ G_IsEndLine(i)}
    IN  IF after = {} THEN Len(g_consumed) + 1
        ELSE CHOOSE i \in after : \A j \in after : i <= j

\* The event lines of the k-th started round, as written to JSON.
G_EventLinesOf(k) ==
    LET part == SubSeq(g_consumed, G_NthStart(k) + 1, G_RoundStop(k) - 1)
    IN  [i \in DOMAIN part |-> [part[i] EXCEPT !.q = "sq"]]

\* The lines from the k-th Round_Start to the marker that stops the round,
\* both included, as written to JSON.
G_WindowWithMarkers(k) ==
    LET part == SubSeq(g_consumed, G_NthStart(k), G_RoundStop(k))
    IN  [i \in DOMAIN part |-> [part[i] EXCEPT !.q = "sq"]]

G_KeyName(k) == "round_" \o ToString(k)

\* C6: the event lines collected after a Round_Start are retained in the
\* output even when no Round_End follows: a round with at least one event
\* line is never dropped.
C6_UnfinishedRoundRetained ==
    g_pc = "done"
       => \A k \in 1..Cardinality(G_Starts) :
             G_EventLinesOf(k) # <<>>
                => \E i \in DOMAIN g_payload.rounds :
                      /\ g_payload.rounds[i].key = G_KeyName(k)
                      /\ g_payload.rounds[i].value = G_EventLinesOf(k)

C8_WindowIncludesMarkers ==
    g_pc = "done"
       => \A i \in DOMAIN g_payload.rounds :
             \E k \in 1..Cardinality(G_Starts) :
                /\ g_payload.rounds[i].key = G_KeyName(k)
                /\ g_payload.rounds[i].value = G_WindowWithMarkers(k)

(***************************************************************************)
(* Claims about match_overview2json.py (checked under SpecOverview)        *)
(***************************************************************************)

M_Starts == {i \in DOMAIN m_markers : m_markers[i].kind = "Round_Start"}

\* The line of the k-th Round_Start.
M_NthStart(k) ==
    CHOOSE i \in M_Starts : Cardinality({j \in M_Starts : j <= i}) = k

\* The k-th started round saw its Round_End: the first marker after its
\* Round_Start is a Round_End.
M_ClosedByEnd(k) ==
    \E e \in (M_NthStart(k) + 1)..Len(m_markers) :
        /\ m_markers[e].kind = "Round_End"
        /\ \A j \in (M_NthStart(k) + 1)..(e - 1) : m_markers[j].kind = "other"

M_OpenCount == IF m_open_round = NoOpenRound THEN 0 ELSE 1

\* C5: a round whose Round_End is never seen, because another Round_Start
\* arrives while it is open or the input ends, is appended to the rounds
\* with complete = false before a new round is opened; no started round is
\* missing from the output.
C5_UnfinishedRoundKept ==
    /\ m_pc = "reading"
          => Len(m_rounds) + M_OpenCount = Cardinality(M_Starts)
    /\ m_open_round # NoOpenRound /\ m_pc = "reading"
          => m_open_round.round_no = Len(m_rounds) + 1
    /\ \A i \in DOMAIN m_rounds :
          /\ i <= Cardinality(M_Starts)
          /\ m_rounds[i].round_no = i
          /\ m_rounds[i].start_ts = m_markers[M_NthStart(i)].ts
          /\ ~M_ClosedByEnd(i) => m_rounds[i].complete = FALSE
    /\ m_pc = "done"
          => /\ Len(m_out.rounds) = Cardinality(M_Starts)
             /\ m_out.rounds = m_rounds

\* Three rounds in the output: the first cut short by a Round_Start, the
\* second complete, the third open when the input ends.
C5_Witness ==
    /\ m_pc = "done"
    /\ Len(m_out.rounds) = 3
    /\ ~m_out.rounds[1].complete
    /\ m_out.rounds[2].complete
    /\ ~m_out.rounds[3].complete

\* C29: after any sequence of lines at most one round is open, the i-th
\* round has round_no = i, a round is complete exactly when its Round_End was
\* seen while it was open, and in the output rounds_started is
\* rounds_completed plus the number of rounds listed as incomplete.
C29_RoundBookkeeping ==
    /\ m_pc = "reading"
          => Len(m_rounds) + M_OpenCount = Cardinality(M_Starts)
    /\ \A i \in DOMAIN m_rounds :
          /\ m_rounds[i].round_no = i
          /\ m_rounds[i].complete <=> M_ClosedByEnd(i)
    /\ m_pc = "done"
          => m_out.rounds_started
                = m_out.rounds_completed + Len(m_out.incomplete_rounds)

\* The lines of the k-th started round that announce its winner: the
\* notices between its Round_Start and the next Round_Start, read while the
\* round was open.
M_WinLines(k) ==
    {j \in (M_NthStart(k) + 1)..Len(m_markers) :
        /\ m_markers[j].win_side # NoneStr
        /\ \A s \in M_Starts : ~(M_NthStart(k) < s /\ s < j)}

M_LastWinLine(k) == CHOOSE j \in M_WinLines(k) : \A i \in M_WinLines(k) : i <= j

\* C20: the winner_team of a round is the team that played the winning side
\* when the round's winner was announced; a 'Team playing' line read later,
\* which gives the side to another team, does not change it.
C20_WinnerTeamAsPlayed ==
    m_pc = "done"
       => \A k \in DOMAIN m_out.rounds :
             (/\ M_WinLines(k) # {}
              /\ m_markers[M_LastWinLine(k)].win_team # NoneStr)
                => m_out.rounds[k].winner_team
                      = m_markers[M_LastWinLine(k)].win_team

====
